---- MODULE Spec2Model ----
(***************************************************************************)
(* A model of the vetis HTTP server: server control (Vetis, HttpServer,    *)
(* TcpListener / UdpListener), the stream listener's accept loop, the      *)
(* request dispatcher (process_request) and the virtual-host router        *)
(* (VirtualHost::route).                                                   *)
(*                                                                         *)
(* Strings are sequences of one-character strings, so that prefix tests,   *)
(* strip_prefix and split_once are computed as the code computes them.     *)
(*                                                                         *)
(* Thirteen specifications share the variables:                           *)
(*   Spec          server control (start / stop) with clients connecting   *)
(*   SpecListener  the accept loop of a started stream listener            *)
(*   SpecRoute     VirtualHost::new / add_path, add_virtual_host and       *)
(*                 process_request -> route                                *)
(*   SpecPaths     StaticPath / ProxyPath / handler results and what the   *)
(*                 dispatcher makes of them                                *)
(*   SpecQuic      the datagram listener: connections, request streams     *)
(*   SpecRegistry  a sequence of add_virtual_host calls                    *)
(*   SpecTls       TLS and cleartext requests to started stream listeners  *)
(*   SpecBuilders  the configuration builders and their build()            *)
(*   SpecAuthority the stream and the datagram dispatcher side by side     *)
(*   SpecLock      the registry lock under proxying to the server itself   *)
(*   SpecTraversal static paths asked for tails that leave the directory   *)
(*   SpecRange     serve_file under any Range header value                 *)
(*   SpecAcceptor  the loop of TlsFactory::create_tls_acceptor             *)
(***************************************************************************)
EXTENDS Integers, Sequences, FiniteSets, TLC

VARIABLES
    config,         \* Vetis.config: the ordered list of ListenerConfig
    virtual_hosts,  \* the shared registry: (hostname, port) -> VirtualHost
    instance,       \* Vetis.instance: Option<HttpServer>
    tasks,          \* the live accept-loop tasks spawned by spawn_server
    conns,          \* client connections made to the listener sockets
    history,        \* the results of the last start()/stop() calls, oldest first
                    \* (in SpecRegistry: the add_virtual_host calls made)
    staged,         \* a VirtualHost under construction (new + add_path)
    response        \* the last request dispatched and what process_request returned

vars == <<config, virtual_hosts, instance, tasks, conns, history, staged, response>>

----------------------------------------------------------------------------
(* Bounds                                                                  *)

MaxConns == 2       \* client connections made during one run of SpecListener
CtlConns == 1       \* client connections made during one run of Spec
MaxPaths == 2       \* paths held by the virtual hosts of SpecRoute
MaxVHosts == 2      \* virtual hosts registered in SpecRoute

----------------------------------------------------------------------------
(* Values                                                                  *)

Localhost == <<"l", "o", "c", "a", "l", "h", "o", "s", "t">>
Ip6Host == <<"i", "p", "6">>
Hostnames == {Localhost, Ip6Host}

Port8080 == 8080
Port8081 == 8081
Ports == {Port8080, Port8081}

StatusOk == 200
StatusNotFound == 404

----------------------------------------------------------------------------
(* String helpers (std::str)                                               *)

\* str::starts_with
StartsWith(s, p) ==
    /\ Len(p) <= Len(s)
    /\ SubSeq(s, 1, Len(p)) = p

\* str::strip_prefix(p).unwrap_or(s)
StripPrefixOr(s, p) ==
    IF StartsWith(s, p) THEN SubSeq(s, Len(p) + 1, Len(s)) ELSE s

\* index of the first occurrence of character c in s, 0 when absent
RECURSIVE FindFrom(_, _, _)
FindFrom(s, c, i) ==
    IF i > Len(s) THEN 0
    ELSE IF s[i] = c THEN i
    ELSE FindFrom(s, c, i + 1)

\* host_port.split_once(':').map(|(host, _)| host).unwrap_or(host_port)
HostOfHostPort(host_port) ==
    LET i == FindFrom(host_port, ":", 1)
    IN  IF i = 0 THEN host_port ELSE SubSeq(host_port, 1, i - 1)

----------------------------------------------------------------------------
(* Virtual hosts and paths                                                 *)

Slash == <<"/">>
UriA == <<"/", "a">>
UriAB == <<"/", "a", "/", "b">>

\* the URIs paths are registered under
UriPool == {Slash, UriA, UriAB}

\* the request paths clients ask for
RequestPaths ==
    {Slash, UriA, UriAB, <<"/", "a", "b">>, <<"/", "a", "/", "b", "/", "c">>, <<"/", "b">>}

\* VirtualHostConfig.security: none, or the certificate and key material
NoSecurity == "NoSecurity"
ValidDer == "ValidDer"
OtherValidDer == "OtherValidDer"
MalformedDer == "MalformedDer"

\* the SecurityConfig values that parse: two different certificates
Certificates == {ValidDer, OtherValidDer}

\* VirtualHostConfig values the builders can produce (hostname non-empty)
VHostConfigs ==
    { [hostname |-> Localhost, port |-> Port8080, security |-> ValidDer],
      [hostname |-> Localhost, port |-> Port8081, security |-> NoSecurity],
      [hostname |-> Ip6Host, port |-> Port8081, security |-> ValidDer],
      [hostname |-> Ip6Host, port |-> Port8080, security |-> MalformedDer] }

\* HandlerPath { uri, handler }
HandlerPath(uri) == [kind |-> "Handler", uri |-> uri]

\* Trie::new()
EmptyTrie == [u \in {} |-> HandlerPath(Slash)]

\* Trie::insert(key, value): the value replaces any value stored under key
TrieInsert(trie, key, value) ==
    [u \in DOMAIN trie \cup {key} |-> IF u = key THEN value ELSE trie[u]]

\* Trie::get_ancestor_value(key): walks down from the root along key and
\* keeps the last node passed that holds a value; the result is a set
\* holding that node's key, or the empty set when no node on the way has one.
RECURSIVE AncestorWalk(_, _, _, _)
AncestorWalk(trie, key, depth, ancestor) ==
    IF depth > Len(key) THEN ancestor
    ELSE LET node == SubSeq(key, 1, depth)
         IN  AncestorWalk(trie, key, depth + 1,
                          IF node \in DOMAIN trie THEN {node} ELSE ancestor)

\* mutant: the walk stops at the first node that holds a value
get_ancestor_value_First(trie, key) ==
    LET hits == {d \in 0..Len(key) : SubSeq(key, 1, d) \in DOMAIN trie}
    IN  IF hits = {} THEN {}
        ELSE {SubSeq(key, 1, CHOOSE d \in hits : \A e \in hits : d <= e)}

get_ancestor_value(trie, key) == AncestorWalk(trie, key, 0, {})

\* VirtualHost::new(host_config)
NewVirtualHost(cfg) ==
    [hostname |-> cfg.hostname, port |-> cfg.port, security |-> cfg.security,
     status_pages |-> {}, paths |-> EmptyTrie]

\* VirtualHost::add_path(path)
add_path(vh, path) ==
    [vh EXCEPT !.paths = TrieInsert(vh.paths, path.uri, path)]

\* the registry key of a virtual host
KeyOf(vh) == <<vh.hostname, vh.port>>

\* mutant: a virtual host already stored under the key is kept
RegistryInsert_KeepFirst(reg, vh) ==
    [k \in DOMAIN reg \cup {KeyOf(vh)} |-> IF k \in DOMAIN reg THEN reg[k] ELSE vh]

\* HashMap::insert(key, virtual_host) in add_virtual_host
RegistryInsert(reg, vh) ==
    [k \in DOMAIN reg \cup {KeyOf(vh)} |-> IF k = KeyOf(vh) THEN vh ELSE reg[k]]

EmptyRegistry == [k \in {} |-> NewVirtualHost(CHOOSE c \in VHostConfigs : TRUE)]

----------------------------------------------------------------------------
(* Requests and responses                                                  *)

\* what the path's handle() returns for this request: the user handler,
\* the file system and the upstream decide it
HandleOutcomes == {"ok", "invalid_path", "error"}

HostHeaders ==
    { [present |-> FALSE, utf8 |-> TRUE, value |-> <<>>],
      [present |-> TRUE, utf8 |-> FALSE, value |-> <<>>],
      [present |-> TRUE, utf8 |-> TRUE, value |-> Localhost],
      [present |-> TRUE, utf8 |-> TRUE, value |-> Localhost \o <<":", "8">>],
      [present |-> TRUE, utf8 |-> TRUE, value |-> Ip6Host] }

UriAuthorities ==
    { [present |-> FALSE, host |-> <<>>],
      [present |-> TRUE, host |-> Ip6Host] }

\* page_opens (whether the status-page file opens) is read only when the
\* path's handle() returns InvalidPath
Requests ==
    { r \in [host : HostHeaders, authority : UriAuthorities, path : RequestPaths,
             outcome : HandleOutcomes, page_opens : BOOLEAN] :
        r.page_opens => r.outcome = "invalid_path" }

\* a response, or the error process_request returns
Reply(kind, status, body, vhost, path, tail) ==
    [kind |-> kind, status |-> status, body |-> body,
     vhost |-> vhost, path |-> path, tail |-> tail]

\* VirtualHost::serve_status_page(status)
serve_status_page(vh, status, page_opens) ==
    IF status \in vh.status_pages /\ page_opens
    THEN [status |-> StatusOk, body |-> "status page file"]
    ELSE [status |-> status, body |-> "Not found"]

\* VirtualHost::route(request)
route(vh, req) ==
    LET uri_path == req.path
        matches == get_ancestor_value(vh.paths, uri_path)
    IN  IF matches = {}
        THEN Reply("response", StatusNotFound, "Not Found", {KeyOf(vh)}, {}, <<>>)
        ELSE LET path == vh.paths[CHOOSE u \in matches : TRUE]
                 target_path == StripPrefixOr(uri_path, path.uri)
             IN  CASE req.outcome = "ok" ->
                        Reply("response", StatusOk, "handler body",
                              {KeyOf(vh)}, {path.uri}, target_path)
                   [] req.outcome = "invalid_path" ->
                        LET page == serve_status_page(vh, StatusNotFound, req.page_opens)
                        IN  Reply("response", page.status, page.body,
                                  {KeyOf(vh)}, {path.uri}, target_path)
                   [] OTHER ->
                        Reply("error", 0, "handler error",
                              {KeyOf(vh)}, {path.uri}, target_path)

\* the host process_request derives from the Host header and the request target
EffectiveAuthority(req) ==
    IF req.host.present
    THEN IF req.host.utf8 THEN HostOfHostPort(req.host.value) ELSE Localhost
    ELSE IF req.authority.present THEN req.authority.host ELSE Localhost

\* mutant: the registry is searched by hostname alone
process_request_HostOnly(req, reg, port) ==
    LET host == EffectiveAuthority(req)
        keys == {k \in DOMAIN reg : k[1] = host}
    IN  IF keys # {}
        THEN route(reg[CHOOSE k \in keys : TRUE], req)
        ELSE Reply("response", StatusNotFound, "Virtual host not found", {}, {}, <<>>)

\* process_request(req, virtual_hosts, port, client_addr)
process_request(req, reg, port) ==
    LET host == EffectiveAuthority(req)
        key == <<host, port>>
    IN  IF key \in DOMAIN reg
        THEN route(reg[key], req)
        ELSE Reply("response", StatusNotFound, "Virtual host not found", {}, {}, <<>>)

NoResponse == <<>>

----------------------------------------------------------------------------
(* Server configuration                                                    *)

Http1 == "Http1"
Http2 == "Http2"
Http3 == "Http3"

ListenerConfig(port, protocol) == [port |-> port, protocol |-> protocol]

\* the ServerConfig values a server is constructed from
ServerConfigs ==
    { <<ListenerConfig(Port8080, Http1)>>,
      <<ListenerConfig(Port8080, Http1), ListenerConfig(Port8081, Http2)>>,
      <<ListenerConfig(Port8080, Http1), ListenerConfig(Port8080, Http2)>>,
      <<ListenerConfig(Port8080, Http2), ListenerConfig(Port8080, Http3)>> }

\* ServerListener::new: Http1 and Http2 get a TcpListener, Http3 a UdpListener
Transport(protocol) == IF protocol = Http3 THEN "udp" ELSE "tcp"

\* the virtual hosts added to a server in Spec
ControlVHostConfigs ==
    { c \in VHostConfigs : c.port = Port8080 }

----------------------------------------------------------------------------
(* Tasks (rt_gate) and sockets                                             *)

NoTask == 0
NoConn == 0

\* a certificate resolver without entries
EmptyResolver == [h \in {} |-> ValidDer]

\* an accept loop handed to spawn_server; it owns its listener socket and
\* the TLS configuration built for it (tls: SNI name -> certificate)
ServerTask(lst, transport, port, tls) ==
    [lst |-> lst, transport |-> transport, port |-> port, pc |-> "accept", cur |-> NoConn,
     tls |-> tls]

EmptyTasks == [t \in {} |-> ServerTask(1, "tcp", Port8080, EmptyResolver)]

\* bind() fails while a socket of the same transport is bound to the port
PortHeld(tks, transport, port) ==
    \E t \in DOMAIN tks : tks[t].transport = transport /\ tks[t].port = port

\* the handle spawn_server returns for a new task
FreshTask(used) ==
    CHOOSE n \in 1..(Cardinality(used) + 1) :
        /\ n \notin used
        /\ \A m \in 1..(n - 1) : m \in used

\* spawn_server(future)
SpawnServer(tks, id, task) ==
    [t \in DOMAIN tks \cup {id} |-> IF t = id THEN task ELSE tks[t]]

\* the task ends (cancelled or panicked): its future, and with it the
\* listener socket, is dropped
EndTask(tks, id) == [t \in DOMAIN tks \ {id} |-> tks[t]]

\* mutant: cancel lets the task run on
CancelTask_Detach(tks, id) == tks

\* GateTask::cancel
CancelTask(tks, id) == IF id \in DOMAIN tks THEN EndTask(tks, id) ELSE tks

\* a GateTask handle is dropped without cancel: the task keeps running (the
\* listeners drop every spawn_worker handle and the workers serve on)
DropHandle(tks, id) == tks

\* TlsFactory::create_tls_config(virtual_hosts, alpn)
create_tls_config(reg) ==
    IF DOMAIN reg = {} \/ \E k \in DOMAIN reg : reg[k].security = MalformedDer
    THEN "Tls"
    ELSE "Ok"

\* the registered virtual hosts that supply a SecurityConfig that parses
Secured(reg) == {k \in DOMAIN reg : reg[k].security \in Certificates}

\* the certificate resolver of the configuration create_tls_config builds:
\* each host with security is registered under its hostname, in the order
\* the registry yields the hosts, so of several hosts with one hostname the
\* one yielded last stays; the set holds the resolver of every order
TlsResolvers(reg) ==
    { f \in [{k[1] : k \in Secured(reg)} -> Certificates] :
        \A h \in DOMAIN f : \E k \in Secured(reg) : k[1] = h /\ reg[k].security = f[h] }

----------------------------------------------------------------------------
(* Listeners and server control                                            *)

\* the task handles held by an HttpServer's listeners
Handles(listeners) == {listeners[i] : i \in DOMAIN listeners} \ {NoTask}

\* TcpListener::listen: bind, then handle_connections builds the TLS
\* configuration and spawns the accept loop
TcpListen(tks, reg, lst, cfg, used, resolver) ==
    IF PortHeld(tks, "tcp", cfg.port)
    THEN [res |-> "Bind", tasks |-> tks, handle |-> NoTask]
    ELSE IF create_tls_config(reg) # "Ok"
    THEN [res |-> "Tls", tasks |-> tks, handle |-> NoTask]
    ELSE LET id == FreshTask(used)
         IN  [res |-> "Ok",
              tasks |-> SpawnServer(tks, id, ServerTask(lst, "tcp", cfg.port, resolver)),
              handle |-> id]

\* UdpListener::listen: builds the TLS configuration, then binds the QUIC
\* endpoint and spawns the accept loop
UdpListen(tks, reg, lst, cfg, used, resolver) ==
    IF create_tls_config(reg) # "Ok"
    THEN [res |-> "Tls", tasks |-> tks, handle |-> NoTask]
    ELSE IF PortHeld(tks, "udp", cfg.port)
    THEN [res |-> "Bind", tasks |-> tks, handle |-> NoTask]
    ELSE LET id == FreshTask(used)
         IN  [res |-> "Ok",
              tasks |-> SpawnServer(tks, id, ServerTask(lst, "udp", cfg.port, resolver)),
              handle |-> id]

\* ServerListener::listen
Listen(tks, reg, lst, cfg, used, resolver) ==
    IF Transport(cfg.protocol) = "tcp"
    THEN TcpListen(tks, reg, lst, cfg, used, resolver)
    ELSE UdpListen(tks, reg, lst, cfg, used, resolver)

\* every handle of a set is cancelled
RECURSIVE CancelAll(_, _)
CancelAll(tks, ids) ==
    IF ids = {} THEN tks
    ELSE LET id == CHOOSE i \in ids : TRUE
         IN  CancelAll(CancelTask(tks, id), ids \ {id})

\* every handle of a set is dropped
RECURSIVE DropAll(_, _)
DropAll(tks, ids) ==
    IF ids = {} THEN tks
    ELSE LET id == CHOOSE i \in ids : TRUE
         IN  DropAll(DropHandle(tks, id), ids \ {id})

\* HttpServer::start: listen() on each listener in order; the first error
\* returns, and the listeners built so far are dropped with their handles
RECURSIVE StartListeners(_, _, _, _, _, _, _)
StartListeners(cfgs, reg, lst, tks, handles, used, resolver) ==
    IF lst > Len(cfgs)
    THEN [res |-> "Ok", tasks |-> tks, listeners |-> handles]
    ELSE LET r == Listen(tks, reg, lst, cfgs[lst], used, resolver)
         IN  IF r.res # "Ok"
             THEN [res |-> r.res, tasks |-> DropAll(r.tasks, Handles(handles)),
                   listeners |-> <<>>]
             ELSE StartListeners(cfgs, reg, lst + 1, r.tasks,
                                 Append(handles, r.handle), used \cup {r.handle},
                                 resolver)

NoInstance == [present |-> FALSE, listeners |-> <<>>]

\* history keeps the results of the last three calls of start() and stop()
Record(hist, op, res) ==
    LET h == Append(hist, [op |-> op, res |-> res])
    IN  IF Len(h) > 3 THEN Tail(h) ELSE h

LastCall == IF history = <<>> THEN [op |-> "none", res |-> "none"]
            ELSE history[Len(history)]

\* the last n calls, oldest first
LastCalls(n) ==
    IF Len(history) <= n THEN history
    ELSE SubSeq(history, Len(history) - n + 1, Len(history))

\* the connections an ended accept loop leaves behind: the one it was
\* peeking or handshaking and those still queued on its socket are lost
LoseConns(cs, ended) ==
    [c \in DOMAIN cs |->
        IF cs[c].task \in ended /\ cs[c].state \in {"backlog", "peek", "handshake"}
        THEN [cs[c] EXCEPT !.state = "lost"]
        ELSE cs[c]]

\* mutant: start() does not look at the registry first
Start_NoRegistryCheck ==
    \E resolver \in TlsResolvers(virtual_hosts) :
    LET r == StartListeners(config, virtual_hosts, 1, tasks, <<>>,
                            DOMAIN tasks \cup Handles(instance.listeners), resolver)
    IN  /\ tasks' = r.tasks
        /\ instance' = IF r.res = "Ok"
                       THEN [present |-> TRUE, listeners |-> r.listeners]
                       ELSE instance
        /\ history' = Record(history, "start", r.res)
        /\ UNCHANGED <<config, virtual_hosts, conns, staged, response>>

\* Vetis::start; every listener's handle_connections builds its TLS
\* configuration from the same registry
Start ==
    IF DOMAIN virtual_hosts = {}
    THEN /\ history' = Record(history, "start", "NoVirtualHosts")
         /\ UNCHANGED <<config, virtual_hosts, instance, tasks, conns, staged, response>>
    ELSE \E resolver \in TlsResolvers(virtual_hosts) :
         LET r == StartListeners(config, virtual_hosts, 1, tasks, <<>>,
                                 DOMAIN tasks \cup Handles(instance.listeners), resolver)
         IN  /\ tasks' = IF r.res = "Ok"
                         THEN DropAll(r.tasks, Handles(instance.listeners))
                         ELSE r.tasks
             /\ instance' = IF r.res = "Ok"
                            THEN [present |-> TRUE, listeners |-> r.listeners]
                            ELSE instance
             /\ history' = Record(history, "start", r.res)
             /\ UNCHANGED <<config, virtual_hosts, conns, staged, response>>

\* HttpServer::stop: TcpListener::stop / UdpListener::stop on each listener,
\* which takes the task handle and cancels it
StopListeners(tks, listeners) ==
    [tasks |-> CancelAll(tks, Handles(listeners)),
     listeners |-> [i \in DOMAIN listeners |-> NoTask]]

\* Vetis::stop
Stop ==
    IF instance.present
    THEN LET r == StopListeners(tasks, instance.listeners)
         IN  /\ tasks' = r.tasks
             /\ instance' = [instance EXCEPT !.listeners = r.listeners]
             /\ conns' = LoseConns(conns, Handles(instance.listeners))
             /\ history' = Record(history, "stop", "Ok")
             /\ UNCHANGED <<config, virtual_hosts, staged, response>>
    ELSE /\ history' = Record(history, "stop", "NoInstances")
         /\ UNCHANGED <<config, virtual_hosts, instance, tasks, conns, staged, response>>

\* mutant: add_virtual_host rebuilds the TLS configuration of the running
\* listeners
AddVirtualHost_Rebuild(cfg) ==
    /\ virtual_hosts' = RegistryInsert(virtual_hosts, NewVirtualHost(cfg))
    /\ \E resolver \in TlsResolvers(virtual_hosts') :
          tasks' = [t \in DOMAIN tasks |-> [tasks[t] EXCEPT !.tls = resolver]]
    /\ UNCHANGED <<config, instance, conns, history, staged, response>>

\* Vetis::add_virtual_host(VirtualHost::new(cfg))
AddVirtualHost(cfg) ==
    /\ virtual_hosts' = RegistryInsert(virtual_hosts, NewVirtualHost(cfg))
    /\ UNCHANGED <<config, instance, tasks, conns, history, staged, response>>

----------------------------------------------------------------------------
(* Client connections and the stream listener's accept loop                *)

\* the number of bytes handle_connections peeks
PeekLen == 16

RECURSIVE Pad(_, _)
Pad(bytes, n) == IF Len(bytes) >= n THEN bytes ELSE Pad(Append(bytes, 0), n)

\* what a client sends first on a new connection
TlsHello == Pad(<<22, 3, 1>>, 18)       \* a TLS record header 0x16 0x03
AlmostTls == Pad(<<22, 1, 3>>, 18)      \* cleartext: 0x16 not followed by 0x03
ShortClear == <<71, 69, 84>>            \* "GET": fewer than sixteen bytes

Payloads == {TlsHello, AlmostTls, ShortClear}

Connection(task, port, payload) ==
    [task |-> task, port |-> port, payload |-> payload, sent |-> FALSE,
     closed |-> FALSE, state |-> "backlog", via |-> "none", io |-> <<>>]

\* the bytes of the connection that have reached the server
Delivered(c) == IF c.sent THEN c.payload ELSE <<>>

\* the oldest connection waiting in the accept queue of the task's socket
Backlog(t) == {c \in DOMAIN conns : conns[c].task = t /\ conns[c].state = "backlog"}

OldestWaiting(t) == CHOOSE c \in Backlog(t) : \A d \in Backlog(t) : c <= d

\* AsyncPeekable::peek_exact(buf): fills buf from the stream and keeps the
\* bytes in the peek buffer; a later read yields the buffer, then the rest
PeekExact(stream, n) ==
    [peeked |-> SubSeq(stream, 1, n),
     buffer |-> SubSeq(stream, 1, n),
     rest |-> SubSeq(stream, n + 1, Len(stream))]

\* mutant: only the first byte is compared
IsTls_FirstByte(peeked) == StartsWith(peeked, <<22>>)

\* peeked.starts_with(&[0x16, 0x03])
IsTls(peeked) == StartsWith(peeked, <<22, 3>>)

TcpTasks == {t \in DOMAIN tasks : tasks[t].transport = "tcp"}

\* a client connects to a bound stream listener
Connect(t, payload, max) ==
    /\ t \in TcpTasks
    /\ Len(conns) < max
    /\ conns' = Append(conns, Connection(t, tasks[t].port, payload))
    /\ UNCHANGED <<config, virtual_hosts, instance, tasks, history, staged, response>>

\* the client's first bytes arrive while the server waits for them
Send(c) ==
    /\ c \in DOMAIN conns
    /\ conns[c].state = "peek"
    /\ ~conns[c].sent /\ ~conns[c].closed
    /\ conns' = [conns EXCEPT ![c].sent = TRUE]
    /\ UNCHANGED <<config, virtual_hosts, instance, tasks, history, staged, response>>

\* the client closes its end while the server waits for its bytes
Close(c) ==
    /\ c \in DOMAIN conns
    /\ conns[c].state = "peek"
    /\ ~conns[c].closed
    /\ conns' = [conns EXCEPT ![c].closed = TRUE]
    /\ UNCHANGED <<config, virtual_hosts, instance, tasks, history, staged, response>>

\* listener.accept() and set_nodelay succeed: the loop goes on to peek
AcceptOk(t) ==
    /\ t \in TcpTasks
    /\ tasks[t].pc = "accept"
    /\ Backlog(t) # {}
    /\ tasks' = [tasks EXCEPT ![t].pc = "peek", ![t].cur = OldestWaiting(t)]
    /\ conns' = [conns EXCEPT ![OldestWaiting(t)].state = "peek"]
    /\ UNCHANGED <<config, virtual_hosts, instance, history, staged, response>>

\* listener.accept() returns an error: logged, continue
AcceptErr(t) ==
    /\ t \in TcpTasks
    /\ tasks[t].pc = "accept"
    /\ Backlog(t) # {}
    /\ conns' = [conns EXCEPT ![OldestWaiting(t)].state = "dropped"]
    /\ UNCHANGED <<config, virtual_hosts, instance, tasks, history, staged, response>>

\* stream.set_nodelay(true) returns an error: logged, continue
NodelayErr(t) ==
    /\ t \in TcpTasks
    /\ tasks[t].pc = "accept"
    /\ Backlog(t) # {}
    /\ conns' = [conns EXCEPT ![OldestWaiting(t)].state = "dropped"]
    /\ UNCHANGED <<config, virtual_hosts, instance, tasks, history, staged, response>>

\* peek_exact returns sixteen bytes: the TLS branch awaits the handshake,
\* the cleartext branch hands the stream to a worker (handle_http1_request /
\* handle_http2_request) and loops
PeekOk(t) ==
    /\ t \in TcpTasks
    /\ tasks[t].pc = "peek"
    /\ LET c == tasks[t].cur
           p == PeekExact(Delivered(conns[c]), PeekLen)
       IN  /\ Len(Delivered(conns[c])) >= PeekLen
           /\ IF IsTls(p.peeked)
              THEN /\ tasks' = [tasks EXCEPT ![t].pc = "handshake"]
                   /\ conns' = [conns EXCEPT ![c].state = "handshake",
                                             ![c].via = "tls",
                                             ![c].io = p.buffer \o p.rest]
              ELSE /\ tasks' = [tasks EXCEPT ![t].pc = "accept", ![t].cur = NoConn]
                   /\ conns' = [conns EXCEPT ![c].state = "serving",
                                             ![c].via = "clear",
                                             ![c].io = p.buffer \o p.rest]
    /\ UNCHANGED <<config, virtual_hosts, instance, history, staged, response>>

\* peek_exact meets the end of the stream before sixteen bytes: it returns
\* an error and the unwrap() panics inside the accept loop, which ends
PeekPanic(t) ==
    /\ t \in TcpTasks
    /\ tasks[t].pc = "peek"
    /\ LET c == tasks[t].cur
       IN  /\ conns[c].closed
           /\ Len(Delivered(conns[c])) < PeekLen
    /\ tasks' = EndTask(tasks, t)
    /\ conns' = LoseConns(conns, {t})
    /\ UNCHANGED <<config, virtual_hosts, instance, history, staged, response>>

\* tls_acceptor.accept(peekable) succeeds: the TLS stream goes to a worker
HandshakeOk(t) ==
    /\ t \in TcpTasks
    /\ tasks[t].pc = "handshake"
    /\ tasks' = [tasks EXCEPT ![t].pc = "accept", ![t].cur = NoConn]
    /\ conns' = [conns EXCEPT ![tasks[t].cur].state = "serving"]
    /\ UNCHANGED <<config, virtual_hosts, instance, history, staged, response>>

\* mutant: a failed handshake leaves the loop
HandshakeErr_Break(t) ==
    /\ t \in TcpTasks
    /\ tasks[t].pc = "handshake"
    /\ tasks' = EndTask(tasks, t)
    /\ conns' = [LoseConns(conns, {t}) EXCEPT ![tasks[t].cur].state = "dropped"]
    /\ UNCHANGED <<config, virtual_hosts, instance, history, staged, response>>

\* tls_acceptor.accept(peekable) fails: logged, continue
HandshakeErr(t) ==
    /\ t \in TcpTasks
    /\ tasks[t].pc = "handshake"
    /\ tasks' = [tasks EXCEPT ![t].pc = "accept", ![t].cur = NoConn]
    /\ conns' = [conns EXCEPT ![tasks[t].cur].state = "dropped"]
    /\ UNCHANGED <<config, virtual_hosts, instance, history, staged, response>>

----------------------------------------------------------------------------
(* Specification of server control and the stream listener                 *)

TaskIds == 1..6

Init ==
    /\ config \in ServerConfigs
    /\ virtual_hosts = EmptyRegistry
    /\ instance = NoInstance
    /\ tasks = EmptyTasks
    /\ conns = <<>>
    /\ history = <<>>
    /\ staged = <<>>
    /\ response = NoResponse

Next ==
    \/ \E cfg \in ControlVHostConfigs : AddVirtualHost(cfg)
    \/ Start
    \/ Stop
    \/ \E t \in TaskIds, p \in Payloads : Connect(t, p, CtlConns)
    \/ \E c \in DOMAIN conns : Send(c)
    \/ \E c \in DOMAIN conns : Close(c)
    \/ \E t \in TaskIds : AcceptOk(t)
    \/ \E t \in TaskIds : AcceptErr(t)
    \/ \E t \in TaskIds : NodelayErr(t)
    \/ \E t \in TaskIds : PeekOk(t)
    \/ \E t \in TaskIds : PeekPanic(t)
    \/ \E t \in TaskIds : HandshakeOk(t)
    \/ \E t \in TaskIds : HandshakeErr(t)

Spec == Init /\ [][Next]_vars

----------------------------------------------------------------------------
(* Specification of the stream listener: a server that is started and      *)
(* never stopped, and the clients connecting to it                         *)

NextListener ==
    \/ \E cfg \in ControlVHostConfigs : AddVirtualHost(cfg)
    \/ Start
    \/ \E t \in TaskIds, p \in Payloads : Connect(t, p, MaxConns)
    \/ \E c \in DOMAIN conns : Send(c)
    \/ \E c \in DOMAIN conns : Close(c)
    \/ \E t \in TaskIds : AcceptOk(t)
    \/ \E t \in TaskIds : AcceptErr(t)
    \/ \E t \in TaskIds : NodelayErr(t)
    \/ \E t \in TaskIds : PeekOk(t)
    \/ \E t \in TaskIds : PeekPanic(t)
    \/ \E t \in TaskIds : HandshakeOk(t)
    \/ \E t \in TaskIds : HandshakeErr(t)

InitListener ==
    /\ config = <<ListenerConfig(Port8080, Http1)>>
    /\ virtual_hosts = EmptyRegistry
    /\ instance = NoInstance
    /\ tasks = EmptyTasks
    /\ conns = <<>>
    /\ history = <<>>
    /\ staged = <<>>
    /\ response = NoResponse

SpecListener == InitListener /\ [][NextListener]_vars

----------------------------------------------------------------------------
(* Specification of the dispatcher and the router: virtual hosts are built *)
(* (VirtualHost::new, add_path), registered (add_virtual_host), and        *)
(* requests are dispatched against the registry                            *)

\* VirtualHost::new(cfg)
CreateVirtualHost(cfg) ==
    /\ staged = <<>>
    /\ response = NoResponse
    /\ Cardinality(DOMAIN virtual_hosts \cup {<<cfg.hostname, cfg.port>>}) <= MaxVHosts
    /\ staged' = <<NewVirtualHost(cfg)>>
    /\ UNCHANGED <<config, virtual_hosts, instance, tasks, conns, history, response>>

\* the paths held by the registered virtual hosts
RECURSIVE RegisteredPaths(_, _)
RegisteredPaths(reg, keys) ==
    IF keys = {} THEN 0
    ELSE LET k == CHOOSE x \in keys : TRUE
         IN  Cardinality(DOMAIN reg[k].paths) + RegisteredPaths(reg, keys \ {k})

\* VirtualHost::add_path(HandlerPath at uri)
AddPath(uri) ==
    /\ staged # <<>>
    /\ RegisteredPaths(virtual_hosts, DOMAIN virtual_hosts)
          + Cardinality(DOMAIN staged[1].paths \cup {uri}) <= MaxPaths
    /\ staged' = <<add_path(staged[1], HandlerPath(uri))>>
    /\ UNCHANGED <<config, virtual_hosts, instance, tasks, conns, history, response>>

\* Vetis::add_virtual_host(virtual_host)
AddStagedVirtualHost ==
    /\ staged # <<>>
    /\ virtual_hosts' = RegistryInsert(virtual_hosts, staged[1])
    /\ staged' = <<>>
    /\ UNCHANGED <<config, instance, tasks, conns, history, response>>

\* a request arrives on a listener of the port and process_request answers it
ProcessRequest(req, port) ==
    /\ staged = <<>>
    /\ response = NoResponse
    /\ response' = <<[req |-> req, port |-> port,
                      reply |-> process_request(req, virtual_hosts, port)]>>
    /\ UNCHANGED <<config, virtual_hosts, instance, tasks, conns, history, staged>>

\* the reply has gone to the client
SendResponse ==
    /\ response # NoResponse
    /\ response' = NoResponse
    /\ UNCHANGED <<config, virtual_hosts, instance, tasks, conns, history, staged>>

NextRoute ==
    \/ \E cfg \in VHostConfigs : CreateVirtualHost(cfg)
    \/ \E uri \in UriPool : AddPath(uri)
    \/ AddStagedVirtualHost
    \/ \E req \in Requests, port \in Ports : ProcessRequest(req, port)
    \/ SendResponse

InitRoute ==
    /\ config = <<ListenerConfig(Port8080, Http1), ListenerConfig(Port8081, Http2)>>
    /\ virtual_hosts = EmptyRegistry
    /\ instance = NoInstance
    /\ tasks = EmptyTasks
    /\ conns = <<>>
    /\ history = <<>>
    /\ staged = <<>>
    /\ response = NoResponse

SpecRoute == InitRoute /\ [][NextRoute]_vars

----------------------------------------------------------------------------
(* Claims about the dispatcher and the router (SpecRoute)                  *)

\* the last request dispatched, the port it arrived on and the reply
LastReq == response[1].req
LastPort == response[1].port
LastReply == response[1].reply

\* C1: a request with effective authority a arriving on port q is routed
\* to the virtual host registered under (h, p) if and only if a = h and
\* q = p; when no registered key equals (a, q) the reply is 404 "Virtual
\* host not found" and no path of any virtual host is invoked.
C1_RoutedByAuthorityAndPort ==
    response # NoResponse =>
        LET a == EffectiveAuthority(LastReq)
            q == LastPort
        IN  /\ \A k \in DOMAIN virtual_hosts :
                  (k \in LastReply.vhost) <=> (a = k[1] /\ q = k[2])
            /\ <<a, q>> \notin DOMAIN virtual_hosts =>
                  /\ LastReply.kind = "response"
                  /\ LastReply.status = StatusNotFound
                  /\ LastReply.body = "Virtual host not found"
                  /\ LastReply.vhost = {}
                  /\ LastReply.path = {}

\* C1 witness: a request is routed to localhost:8080 although the same
\* hostname is also registered under another port
C1_Witness ==
    /\ response # NoResponse
    /\ LastReply.vhost = {<<Localhost, Port8080>>}
    /\ <<Localhost, Port8081>> \in DOMAIN virtual_hosts

\* the registered URIs of a virtual host that are a prefix of a path
PrefixUris(vh, path) == {u \in DOMAIN vh.paths : StartsWith(path, u)}

\* C2: route() invokes the path registered under the longest registered
\* URI that is a prefix of the request path, never a shorter one; when no
\* registered URI is a prefix the reply is 404 "Not Found" and no path is
\* invoked.
C2_LongestPrefixMatch ==
    (response # NoResponse /\ LastReply.vhost # {}) =>
        LET vh == virtual_hosts[CHOOSE k \in LastReply.vhost : TRUE]
            prefixes == PrefixUris(vh, LastReq.path)
        IN  IF prefixes = {}
            THEN /\ LastReply.kind = "response"
                 /\ LastReply.status = StatusNotFound
                 /\ LastReply.body = "Not Found"
                 /\ LastReply.path = {}
            ELSE \E u \in prefixes :
                    /\ LastReply.path = {u}
                    /\ \A v \in prefixes : Len(v) <= Len(u)
                    /\ LastReply.tail = SubSeq(LastReq.path, Len(u) + 1, Len(LastReq.path))

\* C2 witness: two registered URIs, one a proper prefix of the other, are
\* both prefixes of the request path and the longer one handles it
C2_Witness ==
    /\ response # NoResponse
    /\ LastReply.vhost # {}
    /\ LastReply.path = {UriAB}
    /\ LET vh == virtual_hosts[CHOOSE k \in LastReply.vhost : TRUE]
       IN  /\ UriA \in DOMAIN vh.paths
           /\ Len(LastReq.path) > Len(UriAB)

----------------------------------------------------------------------------
(* Claims about server control (Spec)                                      *)

CallResult(op, res) == [op |-> op, res |-> res]

\* no listener of the stored instance holds a task handle
Idle ==
    \/ ~instance.present
    \/ \A i \in DOMAIN instance.listeners : instance.listeners[i] = NoTask

\* every port of the configuration is free to bind
AllPortsFree(tks) ==
    \A i \in DOMAIN config :
        ~PortHeld(tks, Transport(config[i].protocol), config[i].port)

\* every listener of the configuration has a live accept loop
AllListening(tks) ==
    \A i \in DOMAIN config : \E t \in DOMAIN tks : tks[t].lst = i

\* C3: start() with an empty registry returns NoVirtualHosts, creates and
\* binds no listener and stores no instance; a stop() that follows
\* returns NoInstances.
C3_StartWithoutVirtualHosts ==
    [][ /\ (Start /\ DOMAIN virtual_hosts = {}) =>
              /\ LastCall' = CallResult("start", "NoVirtualHosts")
              /\ tasks' = tasks
              /\ instance' = NoInstance
        /\ (Stop /\ LastCall = CallResult("start", "NoVirtualHosts")) =>
              LastCall' = CallResult("stop", "NoInstances") ]_vars

\* C3 witness: start() failed with NoVirtualHosts and the stop() after it
\* returned NoInstances
C3_Witness ==
    LastCalls(2) = <<CallResult("start", "NoVirtualHosts"), CallResult("stop", "NoInstances")>>

\* C4: stop() returns NoInstances whenever the server is idle, also after
\* a successful start() followed by a successful stop().
C4_StopWhenIdle ==
    [][ (Stop /\ Idle) => LastCall' = CallResult("stop", "NoInstances") ]_vars

\* C5: each configured listener has at most one active accept loop, and
\* after a stop() that returns Ok no accept loop is active.
C5_AtMostOneTaskSet ==
    /\ [](\A i \in DOMAIN config :
            Cardinality({t \in DOMAIN tasks : tasks[t].lst = i}) <= 1)
    /\ [][ (Stop /\ LastCall' = CallResult("stop", "Ok")) => DOMAIN tasks' = {} ]_vars

\* C6: a stop() that returns Ok right after a successful start() releases
\* every listener socket, and the start() that follows it (the TLS
\* material still valid) binds every port again and succeeds.
C6_StopReleasesSockets ==
    [][ /\ (Stop /\ LastCall = CallResult("start", "Ok")) =>
              /\ LastCall' = CallResult("stop", "Ok")
              /\ AllPortsFree(tasks')
        /\ (/\ Start
            /\ LastCalls(2) = <<CallResult("start", "Ok"), CallResult("stop", "Ok")>>
            /\ create_tls_config(virtual_hosts) = "Ok") =>
              /\ LastCall' = CallResult("start", "Ok")
              /\ AllListening(tasks') ]_vars

\* C6 witness: start() succeeded, stop() returned Ok and start() succeeded
\* again on the same ports
C6_Witness ==
    /\ LastCalls(3) = <<CallResult("start", "Ok"), CallResult("stop", "Ok"),
                        CallResult("start", "Ok")>>
    /\ AllListening(tasks)
    /\ Len(config) = 2

----------------------------------------------------------------------------
(* Claims about the stream listener's accept loop (SpecListener)           *)

\* the accept loop is waiting on the connection it accepted last
WaitsOnConnection(t) ==
    \/ /\ tasks[t].pc = "peek"
       /\ Len(Delivered(conns[tasks[t].cur])) < PeekLen
    \/ tasks[t].pc = "handshake"

\* C7: while an accepted connection has not delivered sixteen bytes or has
\* not finished its handshake, later connections are still accepted: no
\* connection waits in the accept queue behind it.
C7_AcceptLoopNeverWaits ==
    \A t \in TcpTasks :
        WaitsOnConnection(t) => \A c \in Backlog(t) : c < tasks[t].cur

\* C8: a connection closed before sixteen bytes arrived is dropped alone:
\* the accept loop that held it is alive and accepting afterwards.
C8_ShortPeekKeepsLoop ==
    [][ \A t \in TcpTasks :
          (/\ tasks[t].pc = "peek"
           /\ conns[tasks[t].cur].closed
           /\ Len(Delivered(conns[tasks[t].cur])) < PeekLen
           /\ conns'[tasks[t].cur].state # "peek")
          => (t \in DOMAIN tasks' /\ tasks'[t].pc = "accept") ]_vars

\* C9: when accept(), set_nodelay or the TLS handshake fails, only that
\* connection is dropped: the accept loop is alive and back at accept(),
\* every other task and connection is as before.
C9_FailureDropsOneConnection ==
    [][ \A c \in DOMAIN conns :
          (conns[c].state # "dropped" /\ conns'[c].state = "dropped") =>
              /\ DOMAIN tasks' = DOMAIN tasks
              /\ tasks'[conns[c].task].pc = "accept"
              /\ \A t \in DOMAIN tasks \ {conns[c].task} : tasks'[t] = tasks[t]
              /\ \A d \in DOMAIN conns \ {c} : conns'[d] = conns[d] ]_vars

\* C9 witness: a connection was dropped after a failed handshake and a
\* connection that arrived later on the same listener is being served
C9_Witness ==
    \E c, d \in DOMAIN conns :
        /\ c < d
        /\ conns[c].task = conns[d].task
        /\ conns[c].state = "dropped" /\ conns[c].via = "tls"
        /\ conns[d].state = "serving"

\* C10: a connection goes to the TLS acceptor if and only if its first two
\* bytes are 0x16 0x03; every other connection is served as cleartext on
\* the port it connected to; the acceptor or the HTTP driver reads the
\* stream from its first byte, the peeked bytes included.
C10_TlsIffRecordHeader ==
    \A c \in DOMAIN conns :
        conns[c].via # "none" =>
            /\ (conns[c].via = "tls") <=>
                   (conns[c].payload[1] = 22 /\ conns[c].payload[2] = 3)
            /\ conns[c].via = "clear" =>
                   /\ conns[c].state = "serving"
                   /\ \E i \in DOMAIN config :
                          /\ config[i].port = conns[c].port
                          /\ Transport(config[i].protocol) = "tcp"
            /\ conns[c].io = conns[c].payload

\* C10 witness: one connection went to the TLS acceptor and another, whose
\* first byte is 0x16 but whose second is not 0x03, is served as cleartext
C10_Witness ==
    \E c, d \in DOMAIN conns :
        /\ conns[c].via = "tls"
        /\ conns[d].via = "clear"
        /\ conns[d].payload[1] = 22
        /\ conns[d].state = "serving"

----------------------------------------------------------------------------
(* Files, headers and the Range header (std::path, http::HeaderMap)        *)

MaxFileLen == 3     \* the length of the longest file, in bytes

StatusPartialContent == 206
StatusUnauthorized == 401
StatusRangeNotSatisfiable == 416
StatusInternalServerError == 500

DigitChars == <<"0", "1", "2", "3", "4", "5", "6", "7", "8", "9">>

IsDigit(c) == \E i \in DOMAIN DigitChars : DigitChars[i] = c

DigitValue(c) == (CHOOSE i \in DOMAIN DigitChars : DigitChars[i] = c) - 1

\* str::parse::<u64>: the decimal value, or -1 for Err
RECURSIVE ParseDigits(_, _)
ParseDigits(s, acc) ==
    IF s = <<>> THEN acc
    ELSE IF ~IsDigit(Head(s)) THEN -1
    ELSE ParseDigits(Tail(s), 10 * acc + DigitValue(Head(s)))

ParseU64(s) == IF s = <<>> THEN -1 ELSE ParseDigits(s, 0)

\* u64::to_string
RECURSIVE ToDigits(_)
ToDigits(n) ==
    IF n < 10 THEN <<DigitChars[n + 1]>>
    ELSE Append(ToDigits(n \div 10), DigitChars[(n % 10) + 1])

\* str::split_once(c)
SplitOnce(s, c) ==
    LET i == FindFrom(s, c, 1)
    IN  IF i = 0 THEN [found |-> FALSE, left |-> s, right |-> <<>>]
        ELSE [found |-> TRUE, left |-> SubSeq(s, 1, i - 1),
              right |-> SubSeq(s, i + 1, Len(s))]

Bytes == <<"b", "y", "t", "e", "s">>
Items == <<"i", "t", "e", "m", "s">>

\* the header value "<unit>=<start>-<end>"
RangeValue(unit, start, end) ==
    unit \o <<"=">> \o ToDigits(start) \o <<"-">> \o ToDigits(end)

NoHeader == [present |-> FALSE, value |-> <<>>]
Header(value) == [present |-> TRUE, value |-> value]

\* HeaderMap::new()
NoHeaders == [n \in {} |-> <<>>]

\* HeaderMap::insert(name, value): the value replaces any value under name
HeaderInsert(headers, name, value) ==
    [n \in DOMAIN headers \cup {name} |-> IF n = name THEN value ELSE headers[n]]

\* a file system: relative path -> [kind, len]; a path outside the domain
\* does not exist
IsPresent(fs, file) == file \in DOMAIN fs
IsDir(fs, file) == file \in DOMAIN fs /\ fs[file].kind = "dir"

\* PathBuf::join: an absolute name replaces the directory
Join(directory, name) ==
    IF name = <<>> THEN directory
    ELSE IF name[1] = "/" THEN name
    ELSE IF directory = <<>> THEN name
    ELSE directory \o <<"/">> \o name

NoBody == [kind |-> "text", text |-> "", file |-> <<>>, offset |-> 0]
TextBody(text) == [kind |-> "text", text |-> text, file |-> <<>>, offset |-> 0]
FileBody(file, offset) == [kind |-> "file", text |-> "", file |-> file, offset |-> offset]

\* the offsets of the file's bytes a body carries: body_from_file streams
\* the open file from its seek position to the end of the file
BodyOffsets(fs, body) ==
    IF body.kind = "file" THEN body.offset..(fs[body.file].len - 1) ELSE {}

\* Ok(Response) / Err(VetisError) / a panic, as a path's handle() ends
OkResponse(status, headers, body) ==
    [kind |-> "response", status |-> status, headers |-> headers, body |-> body,
     error |-> "none"]
ErrResult(error) ==
    [kind |-> "error", status |-> 0, headers |-> NoHeaders, body |-> NoBody,
     error |-> error]
Panic ==
    [kind |-> "panic", status |-> 0, headers |-> NoHeaders, body |-> NoBody,
     error |-> "panic"]

----------------------------------------------------------------------------
(* Static paths (StaticPath)                                               *)

Html == <<"h", "t", "m", "l">>

\* Regex::is_match for the default extensions regex ".html": any one
\* character followed by "html", anywhere in the text
ExtMatch(text) ==
    \E i \in 1..Len(text) : i + 4 <= Len(text) /\ SubSeq(text, i + 1, i + 4) = Html

\* minimime::lookup_by_filename: the content type of a known extension
MimeType(file) ==
    IF Len(file) >= 5 /\ SubSeq(file, Len(file) - 4, Len(file)) = <<".">> \o Html
    THEN <<"text/html">>
    ELSE <<>>

\* StaticPath::serve_file(file, range)
serve_file(fs, file, range) ==
    IF ~IsPresent(fs, file) THEN ErrResult("FileNotFound")
    ELSE
    LET filesize == fs[file].len
        whole == OkResponse(StatusOk,
                            HeaderInsert(HeaderInsert(NoHeaders, "accept-ranges", <<"bytes">>),
                                         "content-length", ToDigits(filesize)),
                            FileBody(file, 0))
    IN  IF ~range.present THEN whole
        ELSE
        LET unit_range == SplitOnce(range.value, "=")
            start_end == SplitOnce(unit_range.right, "-")
            start == ParseU64(start_end.left)
            end == ParseU64(start_end.right)
        IN  IF ~unit_range.found THEN Panic
            ELSE IF unit_range.left # Bytes THEN ErrResult("InvalidRange")
            ELSE IF ~start_end.found \/ start < 0 \/ end < 0 THEN Panic
            ELSE IF start > end \/ start >= filesize
            THEN OkResponse(StatusRangeNotSatisfiable, NoHeaders, NoBody)
            ELSE IF start < end /\ end < filesize
            THEN OkResponse(StatusPartialContent, NoHeaders, FileBody(file, start))
            ELSE whole

\* the first listed index file that exists under the directory, as a set
FirstIndexFile(fs, index_files, directory) ==
    LET hits == {i \in DOMAIN index_files : IsPresent(fs, Join(directory, index_files[i]))}
    IN  IF hits = {} THEN {}
        ELSE {Join(directory, index_files[CHOOSE i \in hits : \A j \in hits : i <= j])}

\* mutant: the last listed index file that exists is taken
serve_index_file_Last(fs, cfg, directory) ==
    LET hits == {i \in DOMAIN cfg.index_files.names :
                    IsPresent(fs, Join(directory, cfg.index_files.names[i]))}
    IN  IF ~cfg.index_files.present \/ hits = {} THEN ErrResult("FileNotFound")
        ELSE serve_file(fs, Join(directory,
                                 cfg.index_files.names[CHOOSE i \in hits : \A j \in hits : i >= j]),
                        NoHeader)

\* StaticPath::serve_index_file(directory)
serve_index_file(fs, cfg, directory) ==
    LET found == IF cfg.index_files.present
                 THEN FirstIndexFile(fs, cfg.index_files.names, directory)
                 ELSE {}
    IN  IF found = {} THEN ErrResult("FileNotFound")
        ELSE serve_file(fs, CHOOSE f \in found : TRUE, NoHeader)

\* StaticPath::serve_metadata(file)
serve_metadata(fs, file) ==
    IF ~IsPresent(fs, file) THEN ErrResult("FileNotFound")
    ELSE LET length == HeaderInsert(NoHeaders, "content-length", ToDigits(fs[file].len))
             dated == HeaderInsert(length, "last-modified", <<"date">>)
             typed == IF MimeType(file) # <<>>
                      THEN HeaderInsert(dated, "content-type", MimeType(file))
                      ELSE dated
         IN  OkResponse(StatusOk, typed, NoBody)

\* the file a static path looks up for a tail: directory.join(tail without
\* its leading "/")
Candidate(cfg, uri) == Join(cfg.directory, StripPrefixOr(uri, Slash))

\* mutant: the auth hook is not consulted
StaticHandle_NoAuth(fs, cfg, req, uri) ==
    LET tail == StripPrefixOr(uri, Slash)
        file == Join(cfg.directory, tail)
    IN  IF cfg.index_files.present /\ ~IsPresent(fs, file) /\ cfg.regex_ok /\ ~ExtMatch(tail)
        THEN serve_index_file(fs, cfg, cfg.directory)
        ELSE IF cfg.index_files.present /\ IsDir(fs, file)
        THEN serve_index_file(fs, cfg, file)
        ELSE IF ~cfg.index_files.present /\ ~IsPresent(fs, file)
        THEN ErrResult("FileNotFound")
        ELSE IF req.method = "HEAD" THEN serve_metadata(fs, file)
        ELSE serve_file(fs, file, req.range)

\* StaticPath::handle(request, uri)
StaticHandle(fs, cfg, req, uri) ==
    LET tail == StripPrefixOr(uri, Slash)
        file == Join(cfg.directory, tail)
    IN  IF cfg.auth /\ req.auth # "pass"
        THEN ErrResult("Auth")
        ELSE IF cfg.index_files.present /\ ~IsPresent(fs, file) /\ cfg.regex_ok /\ ~ExtMatch(tail)
        THEN serve_index_file(fs, cfg, cfg.directory)
        ELSE IF cfg.index_files.present /\ IsDir(fs, file)
        THEN serve_index_file(fs, cfg, file)
        ELSE IF ~cfg.index_files.present /\ ~IsPresent(fs, file)
        THEN ErrResult("FileNotFound")
        ELSE IF req.method = "HEAD" THEN serve_metadata(fs, file)
        ELSE serve_file(fs, file, req.range)

----------------------------------------------------------------------------
(* Proxy paths (ProxyPath)                                                 *)

\* format!("{}{}", target, uri)
ProxyTargetUrl(cfg, uri) == cfg.target \o uri

\* Request::into_http_parts: Request::from_http (stream listeners) holds
\* inner_http; Request::from_quic (datagram listener) leaves it None and the
\* call panics
IntoHttpPartsPanics(via) == via = "udp"

\* mutant: the path tail is left out of the upstream URL
ProxyForward_NoTail(via, cfg, req, uri, upstream) ==
    IF IntoHttpPartsPanics(via) \/ upstream.kind = "bad_url" THEN {}
    ELSE {[url |-> cfg.target, method |-> req.method, headers |-> req.headers]}

\* the request ProxyPath::handle sends upstream: DeboaRequest::at(target_url,
\* method).headers(headers); none when into_http_parts panics or the URL or
\* the request is refused
ProxyForward(via, cfg, req, uri, upstream) ==
    IF IntoHttpPartsPanics(via) \/ upstream.kind = "bad_url" THEN {}
    ELSE {[url |-> ProxyTargetUrl(cfg, uri), method |-> req.method,
           headers |-> req.headers]}

\* ProxyPath::handle(request, uri)
ProxyHandle(via, cfg, req, uri, upstream) ==
    IF IntoHttpPartsPanics(via) THEN Panic
    ELSE IF upstream.kind = "response"
    THEN OkResponse(upstream.status, upstream.headers, upstream.body)
    ELSE ErrResult("Proxy")

----------------------------------------------------------------------------
(* The dispatcher after the path has answered                              *)

\* the match on the path's result at the end of VirtualHost::route
RouteResult(vh, result, page_opens) ==
    IF result.kind = "error" /\ result.error = "InvalidPath"
    THEN LET page == serve_status_page(vh, StatusNotFound, page_opens)
         IN  OkResponse(page.status, NoHeaders, TextBody(page.body))
    ELSE result

\* HeaderName::from_bytes(key): the lower-case name, or <<>> when the key
\* is not a header name
HeaderNameFromBytes(key) ==
    CASE key = "X-A" -> <<"x-a">>
      [] key = "x-a" -> <<"x-a">>
      [] key = "X-B" -> <<"x-b">>
      [] OTHER -> <<>>

\* HeaderValue::from_str(value): control characters are refused
HeaderValueFromStr(value) ==
    IF value = "line\nbreak" THEN <<>> ELSE <<value>>

\* the loop over default_headers in process_request / handle_http_request
RECURSIVE SpliceDefaultHeaders(_, _, _)
SpliceDefaultHeaders(headers, default_headers, i) ==
    IF i > Len(default_headers) THEN headers
    ELSE LET name == HeaderNameFromBytes(default_headers[i].key)
             value == HeaderValueFromStr(default_headers[i].value)
         IN  IF name = <<>> \/ value = <<>>
             THEN SpliceDefaultHeaders(headers, default_headers, i + 1)
             ELSE SpliceDefaultHeaders(HeaderInsert(headers, name[1], value),
                                       default_headers, i + 1)

\* what the client of a found virtual host gets: process_request (stream
\* listener) returns the router's error to the connection driver, which
\* ends the connection without a response; handle_http_request (datagram
\* listener) answers an error with 500
Dispatch(via, vh, result, page_opens) ==
    LET routed == RouteResult(vh, result, page_opens)
    IN  IF routed.kind = "response"
        THEN [routed EXCEPT !.headers =
                  SpliceDefaultHeaders(routed.headers, vh.default_headers, 1)]
        ELSE IF routed.kind = "error" /\ via = "udp"
        THEN OkResponse(StatusInternalServerError, NoHeaders,
                        TextBody("Internal server error"))
        ELSE routed

----------------------------------------------------------------------------
(* Specification of the paths: requests answered by a static path, a user  *)
(* handler or a proxy path of a found virtual host, and what the           *)
(* dispatcher makes of the answer                                          *)

Www == <<"w">>
PageHtml == <<"p", ".", "h", "t", "m", "l">>
PageB == <<"p", ".", "b">>
DirD == <<"d">>
IndexI == <<"i">>
IndexJ == <<"j">>

\* everything that may lie under the directory of the static path
AllFiles ==
    (Join(Www, PageHtml) :> [kind |-> "file", len |-> MaxFileLen]) @@
    (Join(Www, PageB) :> [kind |-> "file", len |-> 1]) @@
    (Join(Www, DirD) :> [kind |-> "dir", len |-> 0]) @@
    (Join(Www, IndexI) :> [kind |-> "file", len |-> 1]) @@
    (Join(Www, IndexJ) :> [kind |-> "file", len |-> 1]) @@
    (Join(Join(Www, DirD), IndexJ) :> [kind |-> "file", len |-> 1]) @@
    (Www :> [kind |-> "dir", len |-> 0])

\* the file systems: the directory itself always exists, a file lies in a
\* directory that exists
FileSystems ==
    { [f \in S \cup {Www} |-> AllFiles[f]] :
        S \in { T \in SUBSET (DOMAIN AllFiles) :
                  Join(Join(Www, DirD), IndexJ) \in T => Join(Www, DirD) \in T } }

NoIndexFiles == [present |-> FALSE, names |-> <<>>]
IndexFiles(names) == [present |-> TRUE, names |-> names]

\* StaticPathConfig { uri, extensions, directory, index_files } and the
\* auth hook; regex_ok tells whether the extensions text is a regex
StaticConfigs ==
    [uri : {Slash}, directory : {Www}, regex_ok : BOOLEAN,
     index_files : {NoIndexFiles, IndexFiles(<<IndexI, IndexJ>>)}, auth : BOOLEAN]

\* the tails route() hands to the path
StaticTails ==
    {<<>>, Slash \o PageHtml, PageHtml, PageB, DirD,
     <<"q", ".", "h", "t", "m", "l">>, <<"q">>}

\* auth: what the auth hook makes of the request's headers
PathRequests ==
    [method : {"GET", "HEAD"},
     range : {NoHeader, Header(RangeValue(Bytes, 0, 1))},
     auth : {"pass", "reject", "fail"},
     headers : {NoHeaders}]

DefaultHeaderLists ==
    { <<>>,
      <<[key |-> "X-A", value |-> "1"]>>,
      <<[key |-> "bad name", value |-> "1"], [key |-> "X-B", value |-> "2"]>>,
      <<[key |-> "X-A", value |-> "line\nbreak"], [key |-> "X-B", value |-> "2"]>>,
      <<[key |-> "X-A", value |-> "1"], [key |-> "x-a", value |-> "2"]>> }

\* the virtual hosts the requests are dispatched to
PathVHosts ==
    [hostname : {Localhost}, port : {Port8080}, status_pages : {{}, {StatusNotFound}},
     default_headers : DefaultHeaderLists]

PlainVHost ==
    [hostname |-> Localhost, port |-> Port8080, status_pages |-> {},
     default_headers |-> <<>>]

\* what a user handler returns
HandlerResults ==
    { OkResponse(StatusOk, HeaderInsert(NoHeaders, "x-a", <<"0">>), TextBody("hello")),
      OkResponse(StatusOk, NoHeaders, TextBody("hello")) }
    \cup { ErrResult(e) : e \in {"InvalidPath", "FileNotFound", "Auth", "Proxy", "Handler"} }

\* what the upstream does with a forwarded request
Upstreams ==
    { [kind |-> "bad_url", status |-> 0, headers |-> NoHeaders, body |-> NoBody],
      [kind |-> "unreachable", status |-> 0, headers |-> NoHeaders, body |-> NoBody],
      [kind |-> "response", status |-> StatusOk,
       headers |-> HeaderInsert(NoHeaders, "server", <<"up">>), body |-> TextBody("Hello, world!")],
      [kind |-> "response", status |-> StatusNotFound,
       headers |-> NoHeaders, body |-> TextBody("gone")] }

ProxyTarget == <<"u">>
ProxyPath(uri) == [kind |-> "Proxy", uri |-> uri, target |-> ProxyTarget]

NoUpstream == [kind |-> "bad_url", status |-> 0, headers |-> NoHeaders, body |-> NoBody]

NoStaticConfig ==
    [uri |-> Slash, directory |-> Www, regex_ok |-> TRUE,
     index_files |-> NoIndexFiles, auth |-> FALSE]

\* the request dispatched and everything that came of it
Served(op, via, vh, fs, cfg, req, uri, upstream, forwarded, result, page_opens) ==
    [op |-> op, via |-> via, vh |-> vh, fs |-> fs, cfg |-> cfg, req |-> req,
     uri |-> uri, upstream |-> upstream, forwarded |-> forwarded,
     page_opens |-> page_opens,
     result |-> result, reply |-> Dispatch(via, vh, result, page_opens)]

\* a request routed to a static path
StaticRequest(fs, cfg, req, uri) ==
    /\ response = NoResponse
    /\ req.auth = "pass" \/ cfg.auth
    /\ response' = <<Served("static", "tcp", PlainVHost, fs, cfg, req, uri,
                            NoUpstream, {}, StaticHandle(fs, cfg, req, uri), FALSE)>>
    /\ UNCHANGED <<config, virtual_hosts, instance, tasks, conns, history, staged>>

\* serve_file on a file of the given length with Range: <unit>=<start>-<end>
RangeRequest(length, unit, start, end) ==
    /\ response = NoResponse
    /\ LET file == Join(Www, PageHtml)
           fs == (file :> [kind |-> "file", len |-> length]) @@
                 (Www :> [kind |-> "dir", len |-> 0])
           req == [method |-> "GET", range |-> Header(RangeValue(unit, start, end)),
                   auth |-> "pass", headers |-> NoHeaders]
       IN  response' = <<Served("range", "tcp", PlainVHost, fs, NoStaticConfig, req,
                                PageHtml, NoUpstream, {},
                                serve_file(fs, file, req.range), FALSE)>>
    /\ UNCHANGED <<config, virtual_hosts, instance, tasks, conns, history, staged>>

\* a request routed to a user handler, which returns result
HandlerRequest(via, vh, result, page_opens) ==
    /\ response = NoResponse
    /\ page_opens => (vh.status_pages # {} /\ result.error = "InvalidPath")
    /\ response' = <<Served("handler", via, vh, AllFiles, NoStaticConfig,
                            [method |-> "GET", range |-> NoHeader, auth |-> "pass",
                             headers |-> NoHeaders],
                            <<>>, NoUpstream, {}, result, page_opens)>>
    /\ UNCHANGED <<config, virtual_hosts, instance, tasks, conns, history, staged>>

\* a request for path on a virtual host whose one path is a proxy path
\* registered at uri: route() finds the path, strips the prefix and calls
\* ProxyPath::handle
ProxyRequest(via, uri, path, method, headers, upstream) ==
    /\ response = NoResponse
    /\ LET paths == TrieInsert(EmptyTrie, uri, ProxyPath(uri))
           matches == get_ancestor_value(paths, path)
           req == [method |-> method, range |-> NoHeader, auth |-> "pass",
                   headers |-> headers]
           cfg == ProxyPath(uri)
           target_path == StripPrefixOr(path, uri)
       IN  response' =
              IF matches = {}
              THEN <<Served("unrouted", via, PlainVHost, AllFiles, cfg, req, path,
                            NoUpstream, {},
                            OkResponse(StatusNotFound, NoHeaders, TextBody("Not Found")),
                            FALSE)>>
              ELSE <<Served("proxy", via, PlainVHost, AllFiles, cfg, req, path,
                            upstream, ProxyForward(via, cfg, req, target_path, upstream),
                            ProxyHandle(via, cfg, req, target_path, upstream), FALSE)>>
    /\ UNCHANGED <<config, virtual_hosts, instance, tasks, conns, history, staged>>

NextPaths ==
    \/ /\ response = NoResponse
       /\ \E fs \in FileSystems, cfg \in StaticConfigs, req \in PathRequests,
             uri \in StaticTails : StaticRequest(fs, cfg, req, uri)
    \/ /\ response = NoResponse
       /\ \E length \in 0..MaxFileLen, unit \in {Bytes, Items},
             start \in 0..(MaxFileLen + 1), end \in 0..(MaxFileLen + 1) :
                 RangeRequest(length, unit, start, end)
    \/ /\ response = NoResponse
       /\ \E via \in {"tcp", "udp"}, vh \in PathVHosts, result \in HandlerResults,
             page_opens \in BOOLEAN : HandlerRequest(via, vh, result, page_opens)
    \/ /\ response = NoResponse
       /\ \E via \in {"tcp", "udp"}, uri \in UriPool, path \in RequestPaths,
             method \in {"GET", "POST"},
             headers \in {NoHeaders, HeaderInsert(NoHeaders, "accept", <<"*/*">>)},
             upstream \in Upstreams :
                 ProxyRequest(via, uri, path, method, headers, upstream)
    \/ SendResponse

InitPaths ==
    /\ config = <<ListenerConfig(Port8080, Http1), ListenerConfig(Port8080, Http3)>>
    /\ virtual_hosts = EmptyRegistry
    /\ instance = NoInstance
    /\ tasks = EmptyTasks
    /\ conns = <<>>
    /\ history = <<>>
    /\ staged = <<>>
    /\ response = NoResponse

SpecPaths == InitPaths /\ [][NextPaths]_vars

----------------------------------------------------------------------------
(* Claims about the paths and the dispatcher (SpecPaths)                   *)

\* the last request dispatched and everything that came of it
LastServed == response[1]

\* the file a static path looked up for the last request
LastCandidate == Candidate(LastServed.cfg, LastServed.uri)

\* the tail the extensions regex is matched against
LastTail == StripPrefixOr(LastServed.uri, Slash)

\* C11: a request dispatched to a found virtual host gets an HTTP response
\* also when its path returns an error: InvalidPath and File(NotFound) give
\* status 404, Auth gives status 401.
C11_ErrorsBecomeResponses ==
    (response # NoResponse /\ LastServed.result.kind = "error") =>
        /\ LastServed.reply.kind = "response"
        /\ LastServed.result.error \in {"InvalidPath", "FileNotFound"} =>
              LastServed.reply.status = StatusNotFound
        /\ LastServed.result.error = "Auth" =>
              LastServed.reply.status = StatusUnauthorized

\* C12: serve_status_page(S), when status_pages maps S to a file that
\* opens, answers with status S and the file as the body.
C12_StatusPageKeepsStatus ==
    (/\ response # NoResponse
     /\ LastServed.result.kind = "error"
     /\ LastServed.result.error = "InvalidPath"
     /\ StatusNotFound \in LastServed.vh.status_pages
     /\ LastServed.page_opens) =>
        /\ LastServed.reply.kind = "response"
        /\ LastServed.reply.status = StatusNotFound
        /\ LastServed.reply.body = TextBody("status page file")

\* C13: for a file of length L and Range: bytes=s-e the response is 416
\* exactly when s > e or s >= L, and 206 whenever s <= e < L.
C13_RangeStatus ==
    (response # NoResponse /\ LastServed.op = "range") =>
        \A s, e \in 0..(MaxFileLen + 1) :
            LastServed.req.range = Header(RangeValue(Bytes, s, e)) =>
                LET L == LastServed.fs[Join(Www, PageHtml)].len
                IN  /\ LastServed.result.kind = "response"
                    /\ (LastServed.result.status = StatusRangeNotSatisfiable)
                          <=> (s > e \/ s >= L)
                    /\ (s <= e /\ e < L) =>
                          LastServed.result.status = StatusPartialContent

\* C31: a 206 Partial Content response to Range: bytes=s-e carries exactly
\* the e-s+1 bytes of the file at offsets s through e inclusive.
C31_RangeBody ==
    (/\ response # NoResponse
     /\ LastServed.op = "range"
     /\ LastServed.result.kind = "response"
     /\ LastServed.result.status = StatusPartialContent) =>
        \A s, e \in 0..(MaxFileLen + 1) :
            LastServed.req.range = Header(RangeValue(Bytes, s, e)) =>
                BodyOffsets(LastServed.fs, LastServed.result.body) = s..e

\* what the static path answers to the last request when asked with GET
LastAsGet ==
    StaticHandle(LastServed.fs, LastServed.cfg,
                 [LastServed.req EXCEPT !.method = "GET", !.range = NoHeader],
                 LastServed.uri)

\* C14: where GET is answered with a file, HEAD for the same target gets
\* status 200, the same response headers and an empty body, also when the
\* target resolves to an index file.
C14_HeadMatchesGet ==
    (/\ response # NoResponse
     /\ LastServed.op = "static"
     /\ LastServed.req.method = "HEAD"
     /\ LastAsGet.kind = "response"
     /\ LastAsGet.status = StatusOk
     /\ LastAsGet.body.kind = "file"
     /\ LastServed.fs[LastAsGet.body.file].kind = "file") =>
        /\ LastServed.result.kind = "response"
        /\ LastServed.result.status = StatusOk
        /\ LastServed.result.headers = LastAsGet.headers
        /\ LastServed.result.body = NoBody

\* the request passed the auth hook, or the path has none
LastAuthorized == ~LastServed.cfg.auth \/ LastServed.req.auth = "pass"

\* the answer is the first listed index file that exists under directory,
\* or File(NotFound) when none of them exists there
AnsweredWithIndex(directory) ==
    LET names == LastServed.cfg.index_files.names
        there == {i \in DOMAIN names : Join(directory, names[i]) \in DOMAIN LastServed.fs}
    IN  IF there = {}
        THEN LastServed.result = ErrResult("FileNotFound")
        ELSE \E i \in there :
                /\ \A j \in there : i <= j
                /\ LastServed.result.kind = "response"
                /\ LastServed.result.status = StatusOk
                /\ LastServed.result.body = FileBody(Join(directory, names[i]), 0)

C16_OnlyAllowedExtensions ==
    (/\ response # NoResponse
     /\ LastServed.op = "static"
     /\ LastServed.result.kind = "response"
     /\ LastServed.result.body.kind = "file"
     /\ LastServed.result.body.file = LastCandidate
     /\ LastServed.fs[LastCandidate].kind = "file"
     /\ LastServed.cfg.regex_ok) =>
        ExtMatch(LastTail)

\* C17: on a static path with an auth hook, a request the hook rejects, or
\* for which the hook fails, ends with the Unauthorized error and nothing
\* else: no 200, 206, metadata or index-file response.
C17_AuthBeforeFiles ==
    (/\ response # NoResponse
     /\ LastServed.op = "static"
     /\ LastServed.cfg.auth
     /\ LastServed.req.auth # "pass") =>
        LastServed.result = ErrResult("Auth")

\* C17 witness: the hook rejected a GET for a file that exists and whose
\* tail matches the regex, and the result is the Unauthorized error
C17_Witness ==
    /\ response # NoResponse
    /\ LastServed.op = "static"
    /\ LastServed.cfg.auth
    /\ LastServed.req.auth = "reject"
    /\ LastServed.req.method = "GET"
    /\ LastCandidate = Join(Www, PageHtml)
    /\ LastCandidate \in DOMAIN LastServed.fs
    /\ LastServed.result = ErrResult("Auth")

\* the pairs of the host's default_headers that are a valid header name
\* and a valid header value
ValidDefaults ==
    {i \in DOMAIN LastServed.vh.default_headers :
        /\ HeaderNameFromBytes(LastServed.vh.default_headers[i].key) # <<>>
        /\ HeaderValueFromStr(LastServed.vh.default_headers[i].value) # <<>>}

\* C19: for a response the router returns, every valid (name, value) pair
\* of default_headers is in the response headers sent; invalid pairs are
\* skipped, and status, body and the other headers are as the router
\* returned them.
C19_DefaultHeadersSpliced ==
    (/\ response # NoResponse
     /\ LastServed.op = "handler"
     /\ LastServed.result.kind = "response") =>
        LET defaults == LastServed.vh.default_headers
            names == {HeaderNameFromBytes(defaults[i].key)[1] : i \in ValidDefaults}
        IN  /\ LastServed.reply.kind = "response"
            /\ LastServed.reply.status = LastServed.result.status
            /\ LastServed.reply.body = LastServed.result.body
            /\ \A i \in ValidDefaults :
                  /\ HeaderNameFromBytes(defaults[i].key)[1] \in DOMAIN LastServed.reply.headers
                  /\ LastServed.reply.headers[HeaderNameFromBytes(defaults[i].key)[1]]
                        = <<defaults[i].value>>
            /\ DOMAIN LastServed.reply.headers = DOMAIN LastServed.result.headers \cup names
            /\ \A n \in DOMAIN LastServed.result.headers \ names :
                  LastServed.reply.headers[n] = LastServed.result.headers[n]

C21_ProxyNeverPanics ==
    (response # NoResponse /\ LastServed.op = "proxy") =>
        \/ LastServed.result.kind = "response"
        \/ LastServed.result = ErrResult("Proxy")

\* C36: for every proxy path prefix and every request path it matches,
\* the upstream URL is the configured target followed by a tail that is
\* empty or begins with "/", so the scheme, host and port of the URL are
\* those of the target.
C36_TailKeepsTarget ==
    (response # NoResponse /\ LastServed.op = "proxy") =>
        \A f \in LastServed.forwarded :
            LET target == LastServed.cfg.target
                tail == SubSeq(f.url, Len(target) + 1, Len(f.url))
            IN  /\ SubSeq(f.url, 1, Len(target)) = target
                /\ tail = <<>> \/ tail[1] = "/"

----------------------------------------------------------------------------
(* Claims about the effective authority (SpecRoute)                        *)

\* the authority by the three rules: Host header (UTF-8) without its port,
\* else the host of the request target's authority, else localhost
AuthorityByRules(req) ==
    IF req.host.present /\ req.host.utf8 THEN HostOfHostPort(req.host.value)
    ELSE IF req.authority.present THEN req.authority.host
    ELSE Localhost

\* C18: on a stream listener the request is looked up under the authority
\* given by the three rules: the Host header value without ':port' when the
\* header is present and decodable, otherwise the host of the request
\* target's authority when it has one, otherwise "localhost".
C18_EffectiveAuthority ==
    response # NoResponse =>
        \A k \in DOMAIN virtual_hosts :
            (k \in LastReply.vhost) <=> (k = <<AuthorityByRules(LastReq), LastPort>>)

----------------------------------------------------------------------------
(* Claims about stopping a server with connections in service (Spec)       *)

\* C22: after a stop() that returns Ok no connection worker spawned by a
\* listener of the server is still running: the connections that were
\* being served are aborted.
C22_StopAbortsWorkers ==
    [][ (Stop /\ LastCall' = CallResult("stop", "Ok")) =>
            \A c \in DOMAIN conns : conns'[c].state # "serving" ]_vars

\* C33: a start() that returns an error because a listener fails to bind
\* or to build its TLS configuration leaves no accept loop running that it
\* spawned itself and stores no instance: every task left is one stop()
\* can reach through the stored instance.
C33_FailedStartLeavesNothing ==
    [][ (Start /\ LastCall'.res \in {"Bind", "Tls"}) =>
            /\ DOMAIN tasks' \subseteq DOMAIN tasks
            /\ instance' = instance
            /\ (~instance.present => DOMAIN tasks' = {}) ]_vars

----------------------------------------------------------------------------
(* The datagram listener (UdpListener): the endpoint's accept loop, one    *)
(* worker per QUIC connection looping over its request streams, and one    *)
(* worker per request stream                                               *)

MaxQuicConns == 2   \* QUIC connections made during one run of SpecQuic
MaxStreams == 2     \* request streams opened during one run of SpecQuic

\* a QUIC connection arriving at the endpoint, with its request streams
QuicConnection(task) == [task |-> task, state |-> "incoming", streams |-> <<>>]

UdpTasks == {t \in DOMAIN tasks : tasks[t].transport = "udp"}

\* the request streams opened so far on all connections
RECURSIVE StreamCount(_, _)
StreamCount(cs, c) ==
    IF c > Len(cs) THEN 0 ELSE Len(cs[c].streams) + StreamCount(cs, c + 1)

\* a client connects to the endpoint
QuicConnect(t) ==
    /\ t \in UdpTasks
    /\ Len(conns) < MaxQuicConns
    /\ conns' = Append(conns, QuicConnection(t))
    /\ UNCHANGED <<config, virtual_hosts, instance, tasks, history, staged, response>>

\* endpoint.accept() yields the connection: spawn_worker(new_conn.await ...)
\* and the loop goes back to accept()
EndpointAccept(c) ==
    /\ c \in DOMAIN conns
    /\ conns[c].state = "incoming"
    /\ conns[c].task \in UdpTasks
    /\ tasks[conns[c].task].pc = "accept"
    /\ conns' = [conns EXCEPT ![c].state = "handshake"]
    /\ UNCHANGED <<config, virtual_hosts, instance, tasks, history, staged, response>>

\* new_conn.await and Connection::new succeed: the worker enters its loop
\* over h3_conn.accept()
QuicHandshakeOk(c) ==
    /\ c \in DOMAIN conns
    /\ conns[c].state = "handshake"
    /\ conns' = [conns EXCEPT ![c].state = "h3"]
    /\ UNCHANGED <<config, virtual_hosts, instance, tasks, history, staged, response>>

\* mutant: a failed handshake ends the endpoint's accept loop
QuicHandshakeErr_EndsEndpoint(c) ==
    /\ c \in DOMAIN conns
    /\ conns[c].state = "handshake"
    /\ conns' = [conns EXCEPT ![c].state = "failed"]
    /\ tasks' = EndTask(tasks, conns[c].task)
    /\ UNCHANGED <<config, virtual_hosts, instance, history, staged, response>>

\* new_conn.await fails: logged, the connection worker ends
QuicHandshakeErr(c) ==
    /\ c \in DOMAIN conns
    /\ conns[c].state = "handshake"
    /\ conns' = [conns EXCEPT ![c].state = "failed"]
    /\ UNCHANGED <<config, virtual_hosts, instance, tasks, history, staged, response>>

\* Connection::new(...).await.unwrap() panics: the connection worker ends
H3SetupPanic(c) ==
    /\ c \in DOMAIN conns
    /\ conns[c].state = "handshake"
    /\ conns' = [conns EXCEPT ![c].state = "panicked"]
    /\ UNCHANGED <<config, virtual_hosts, instance, tasks, history, staged, response>>

\* the client opens a request stream on an established connection
OpenStream(c) ==
    /\ c \in DOMAIN conns
    /\ conns[c].state = "h3"
    /\ StreamCount(conns, 1) < MaxStreams
    /\ conns' = [conns EXCEPT ![c].streams = Append(@, "open")]
    /\ UNCHANGED <<config, virtual_hosts, instance, tasks, history, staged, response>>

\* h3_conn.accept() returns Ok(Some(resolver)): handle_http_request spawns
\* the request worker and returns Ok, the loop goes back to accept()
AcceptStream(c, i) ==
    /\ c \in DOMAIN conns
    /\ conns[c].state = "h3"
    /\ i \in DOMAIN conns[c].streams
    /\ conns[c].streams[i] = "open"
    /\ \A j \in 1..(i - 1) : conns[c].streams[j] # "open"
    /\ conns' = [conns EXCEPT ![c].streams[i] = "resolving"]
    /\ UNCHANGED <<config, virtual_hosts, instance, tasks, history, staged, response>>

\* the request worker moves on: resolve_request succeeds and the request
\* is dispatched
ResolveOk(c, i) ==
    /\ c \in DOMAIN conns
    /\ i \in DOMAIN conns[c].streams
    /\ conns[c].streams[i] = "resolving"
    /\ conns' = [conns EXCEPT ![c].streams[i] = "answering"]
    /\ UNCHANGED <<config, virtual_hosts, instance, tasks, history, staged, response>>

\* resolve_request fails: the request worker ends without a response
ResolveErr(c, i) ==
    /\ c \in DOMAIN conns
    /\ i \in DOMAIN conns[c].streams
    /\ conns[c].streams[i] = "resolving"
    /\ conns' = [conns EXCEPT ![c].streams[i] = "resolve_failed"]
    /\ UNCHANGED <<config, virtual_hosts, instance, tasks, history, staged, response>>

\* send_response, send_data and finish go through
AnswerOk(c, i) ==
    /\ c \in DOMAIN conns
    /\ i \in DOMAIN conns[c].streams
    /\ conns[c].streams[i] = "answering"
    /\ conns' = [conns EXCEPT ![c].streams[i] = "answered"]
    /\ UNCHANGED <<config, virtual_hosts, instance, tasks, history, staged, response>>

\* answering fails: send_response returns an error (logged), or the path
\* or body.collect().expect() panics inside the request worker
AnswerErr(c, i) ==
    /\ c \in DOMAIN conns
    /\ i \in DOMAIN conns[c].streams
    /\ conns[c].streams[i] = "answering"
    /\ conns' = [conns EXCEPT ![c].streams[i] = "answer_failed"]
    /\ UNCHANGED <<config, virtual_hosts, instance, tasks, history, staged, response>>

\* h3_conn.accept() returns Ok(None) or Err: break, the connection worker
\* ends; request workers already spawned run on
ConnectionEnds(c) ==
    /\ c \in DOMAIN conns
    /\ conns[c].state = "h3"
    /\ \A i \in DOMAIN conns[c].streams : conns[c].streams[i] # "open"
    /\ conns' = [conns EXCEPT ![c].state = "closed"]
    /\ UNCHANGED <<config, virtual_hosts, instance, tasks, history, staged, response>>

StreamIds == 1..(MaxStreams + 1)
QuicConnIds == 1..(MaxQuicConns + 1)

\* the server is set up and started once, then clients connect
NextQuic ==
    \/ /\ ~instance.present
       /\ \E cfg \in ControlVHostConfigs : AddVirtualHost(cfg)
    \/ /\ ~instance.present
       /\ Start
    \/ \E t \in TaskIds : QuicConnect(t)
    \/ \E c \in QuicConnIds : EndpointAccept(c)
    \/ \E c \in QuicConnIds : QuicHandshakeOk(c)
    \/ \E c \in QuicConnIds : QuicHandshakeErr(c)
    \/ \E c \in QuicConnIds : H3SetupPanic(c)
    \/ \E c \in QuicConnIds : OpenStream(c)
    \/ \E c \in QuicConnIds, i \in StreamIds : AcceptStream(c, i)
    \/ \E c \in QuicConnIds, i \in StreamIds : ResolveOk(c, i)
    \/ \E c \in QuicConnIds, i \in StreamIds : ResolveErr(c, i)
    \/ \E c \in QuicConnIds, i \in StreamIds : AnswerOk(c, i)
    \/ \E c \in QuicConnIds, i \in StreamIds : AnswerErr(c, i)
    \/ \E c \in QuicConnIds : ConnectionEnds(c)

InitQuic ==
    /\ config = <<ListenerConfig(Port8080, Http3)>>
    /\ virtual_hosts = EmptyRegistry
    /\ instance = NoInstance
    /\ tasks = EmptyTasks
    /\ conns = <<>>
    /\ history = <<>>
    /\ staged = <<>>
    /\ response = NoResponse

SpecQuic == InitQuic /\ [][NextQuic]_vars

----------------------------------------------------------------------------
(* Claims about the datagram listener (SpecQuic)                           *)

StreamFailures == {"resolve_failed", "answer_failed"}
ConnectionFailures == {"failed", "panicked"}

\* C23: a failure while resolving or answering one request stream leaves
\* its QUIC connection in its loop over h3_conn.accept(), every other
\* stream and connection as before; a failure of one QUIC connection
\* leaves the endpoint's accept loop alive at accept() and every other
\* connection as before; afterwards the next request stream of the
\* connection, and the next connection of the endpoint, can be accepted.
C23_FailuresStayLocal ==
    [][ \A c \in DOMAIN conns :
          /\ \A i \in DOMAIN conns[c].streams :
                (/\ conns[c].streams[i] \notin StreamFailures
                 /\ conns'[c].streams[i] \in StreamFailures) =>
                    /\ conns'[c].state = conns[c].state
                    /\ \A j \in DOMAIN conns[c].streams \ {i} :
                          conns'[c].streams[j] = conns[c].streams[j]
                    /\ \A d \in DOMAIN conns \ {c} : conns'[d] = conns[d]
                    /\ tasks' = tasks
          /\ (/\ conns[c].state \notin ConnectionFailures
              /\ conns'[c].state \in ConnectionFailures) =>
                    /\ tasks' = tasks
                    /\ conns[c].task \in DOMAIN tasks'
                    /\ tasks'[conns[c].task].pc = "accept"
                    /\ \A d \in DOMAIN conns \ {c} : conns'[d] = conns[d] ]_vars
    /\ [](\A c \in DOMAIN conns :
            /\ (/\ conns[c].state = "h3"
                /\ \E i \in DOMAIN conns[c].streams : conns[c].streams[i] \in StreamFailures) =>
                    \A j \in DOMAIN conns[c].streams :
                        (/\ conns[c].streams[j] = "open"
                         /\ \A k \in 1..(j - 1) : conns[c].streams[k] # "open") =>
                            ENABLED AcceptStream(c, j)
            /\ (/\ conns[c].state = "incoming"
                /\ \E d \in DOMAIN conns : conns[d].state \in ConnectionFailures) =>
                    ENABLED EndpointAccept(c))

\* C23 witness: on one connection a request stream failed and a stream
\* opened after it was answered, while an earlier connection had failed
C23_Witness ==
    \E c, d \in DOMAIN conns :
        /\ c < d
        /\ conns[c].state \in ConnectionFailures
        /\ conns[d].state = "h3"
        /\ Len(conns[d].streams) = 2
        /\ conns[d].streams[1] \in StreamFailures
        /\ conns[d].streams[2] = "answered"

----------------------------------------------------------------------------
(* Specification of the registry: a sequence of add_virtual_host calls     *)

MaxAdds == 3        \* add_virtual_host calls made during one run of SpecRegistry

\* the virtual hosts handed to add_virtual_host: every configuration, with
\* no path or with one handler path
AddedVirtualHosts ==
    { NewVirtualHost(cfg) : cfg \in VHostConfigs }
    \cup { add_path(NewVirtualHost(cfg), HandlerPath(uri)) :
              cfg \in VHostConfigs, uri \in {Slash, UriA} }

\* Vetis::add_virtual_host(virtual_host); history keeps the calls made
AddVirtualHostCall(vh) ==
    /\ Len(history) < MaxAdds
    /\ virtual_hosts' = RegistryInsert(virtual_hosts, vh)
    /\ history' = Append(history, vh)
    /\ UNCHANGED <<config, instance, tasks, conns, staged, response>>

NextRegistry == \E vh \in AddedVirtualHosts : AddVirtualHostCall(vh)

InitRegistry ==
    /\ config = <<ListenerConfig(Port8080, Http1), ListenerConfig(Port8081, Http2)>>
    /\ virtual_hosts = EmptyRegistry
    /\ instance = NoInstance
    /\ tasks = EmptyTasks
    /\ conns = <<>>
    /\ history = <<>>
    /\ staged = <<>>
    /\ response = NoResponse

SpecRegistry == InitRegistry /\ [][NextRegistry]_vars

----------------------------------------------------------------------------
(* Claims about the registry (SpecRegistry)                                *)

\* the calls that added a virtual host under key
AddsUnder(key) == {i \in DOMAIN history : KeyOf(history[i]) = key}

\* C24: after any sequence of add_virtual_host calls the registry holds
\* one virtual host for each (hostname, port) key added and none for any
\* other, stored under its own key, and a lookup of a key returns the
\* virtual host most recently added under it; each call leaves the entries
\* under other keys unchanged.
C24_RegistryKeepsLatest ==
    /\ [](/\ DOMAIN virtual_hosts = {KeyOf(history[i]) : i \in DOMAIN history}
          /\ \A k \in DOMAIN virtual_hosts :
                /\ KeyOf(virtual_hosts[k]) = k
                /\ \E i \in AddsUnder(k) :
                      /\ \A j \in AddsUnder(k) : j <= i
                      /\ virtual_hosts[k] = history[i])
    /\ [][ \A k \in DOMAIN virtual_hosts :
              k # KeyOf(history'[Len(history')]) => virtual_hosts'[k] = virtual_hosts[k] ]_vars

\* C24 witness: a key was added twice with different virtual hosts, another
\* key in between, and the registry holds the second one
C24_Witness ==
    /\ Len(history) = 3
    /\ KeyOf(history[1]) = KeyOf(history[3])
    /\ KeyOf(history[2]) # KeyOf(history[1])
    /\ history[1] # history[3]
    /\ virtual_hosts[KeyOf(history[1])] = history[3]
    /\ Cardinality(DOMAIN virtual_hosts) = 2

----------------------------------------------------------------------------
(* Specification of TLS and the dispatcher: virtual hosts with and without *)
(* security are added before and after start(), clients connect to the     *)
(* stream listeners in cleartext or over TLS and send a request            *)

\* the VirtualHostConfig values of SpecTls
TlsVHostConfigs ==
    [hostname : Hostnames, port : Ports, security : {NoSecurity, ValidDer, OtherValidDer}]

\* the requests of SpecTls: the Host header names a host or is absent
TlsRequests ==
    { r \in Requests :
        /\ r.path = Slash /\ r.outcome = "ok"
        /\ ~r.authority.present
        /\ r.host.utf8
        /\ r.host.value \in {<<>>, Localhost, Ip6Host} }

\* a client connects to the listener with a TLS hello naming sni; the
\* resolver finds a certificate for the name, tls_acceptor.accept succeeds
\* and the worker's process_request answers the connection's request
TlsRequest(t, sni, req) ==
    /\ t \in TcpTasks
    /\ sni \in DOMAIN tasks[t].tls
    /\ response' = <<[req |-> req, port |-> tasks[t].port, via |-> "tls", sni |-> sni,
                      reply |-> process_request(req, virtual_hosts, tasks[t].port)]>>
    /\ UNCHANGED <<config, virtual_hosts, instance, tasks, conns, history, staged>>

\* a client connects in cleartext and process_request answers its request
ClearRequest(t, req) ==
    /\ t \in TcpTasks
    /\ response' = <<[req |-> req, port |-> tasks[t].port, via |-> "clear", sni |-> <<>>,
                      reply |-> process_request(req, virtual_hosts, tasks[t].port)]>>
    /\ UNCHANGED <<config, virtual_hosts, instance, tasks, conns, history, staged>>

\* the server is started once; virtual hosts are added at any time
NextTls ==
    \/ \E cfg \in TlsVHostConfigs : AddVirtualHost(cfg)
    \/ /\ ~instance.present
       /\ Start
    \/ /\ response = NoResponse
       /\ \E t \in TaskIds, sni \in Hostnames, req \in TlsRequests : TlsRequest(t, sni, req)
    \/ /\ response = NoResponse
       /\ \E t \in TaskIds, req \in TlsRequests : ClearRequest(t, req)
    \/ SendResponse

InitTls ==
    /\ config = <<ListenerConfig(Port8080, Http1), ListenerConfig(Port8081, Http2)>>
    /\ virtual_hosts = EmptyRegistry
    /\ instance = NoInstance
    /\ tasks = EmptyTasks
    /\ conns = <<>>
    /\ history = <<>>
    /\ staged = <<>>
    /\ response = NoResponse

SpecTls == InitTls /\ [][NextTls]_vars

----------------------------------------------------------------------------
(* Claims about TLS and the dispatcher (SpecTls)                           *)

\* C25: the TLS configuration built for a listener at start() holds, for
\* every registered virtual host with a SecurityConfig, a resolver entry
\* under the host's hostname with that host's own certificate.
C25_EveryHostItsCertificate ==
    [][ \A t \in DOMAIN tasks' \ DOMAIN tasks :
          \A k \in Secured(virtual_hosts) :
              /\ k[1] \in DOMAIN tasks'[t].tls
              /\ tasks'[t].tls[k[1]] = virtual_hosts[k].security ]_vars

\* C26: a request that arrived over a TLS connection is never dispatched
\* to a virtual host without a SecurityConfig, whatever the SNI name and
\* the Host header.
C26_UnsecuredOnlyCleartext ==
    [][ (response = NoResponse /\ response' # NoResponse /\ response'[1].via = "tls") =>
            \A k \in response'[1].reply.vhost : virtual_hosts[k].security # NoSecurity ]_vars

\* C30: add_virtual_host leaves the TLS configuration of every running
\* listener as start() built it, and a request dispatched on a running
\* listener is looked up in the registry as it is then: a virtual host
\* added after start() under the request's authority and the listener's
\* port is the one selected.
C30_AddedAfterStart ==
    [][ /\ virtual_hosts' # virtual_hosts => tasks' = tasks
        /\ (response = NoResponse /\ response' # NoResponse) =>
              LET key == <<EffectiveAuthority(response'[1].req), response'[1].port>>
              IN  key \in DOMAIN virtual_hosts =>
                      response'[1].reply.vhost = {key} ]_vars

\* C30 witness: a virtual host with security whose hostname has no entry in
\* the resolver of the running listener of its port (it was added after
\* start()) was selected for a cleartext request
C30_Witness ==
    /\ response # NoResponse
    /\ response[1].via = "clear"
    /\ \E k \in Secured(virtual_hosts) :
          /\ LastReply.vhost = {k}
          /\ \E t \in TcpTasks : tasks[t].port = k[2] /\ k[1] \notin DOMAIN tasks[t].tls

----------------------------------------------------------------------------
(* Specification of the configuration builders (config.rs): staged holds   *)
(* the builder being filled, response the outcome of the last build()      *)

EmptyString == <<>>
TestUri == <<"/", "t", "e", "s", "t">>
DotHtml == <<".", "h", "t", "m", "l">>
TestDirectory == <<".", "/", "t", "e", "s", "t">>
LocalTarget == <<"h", "t", "t", "p", ":", "/", "/", "l", ":", "8">>
Port80 == 80

\* Vec<u8> certificate and key material: empty, or the start of a DER item
NoBytes == <<>>
DerBytes == <<48, 130>>

\* Ok(configuration) / Err(VetisError::Config(ConfigError::variant(message)))
Built(value) == [kind |-> "ok", value |-> value]
ConfigError(variant, message) ==
    [kind |-> "err", error |-> <<"Config", variant, message>>]

\* VirtualHostConfig::builder()
VirtualHostConfigBuilder ==
    [type |-> "VirtualHostConfig", hostname |-> Localhost, port |-> Port80,
     security |-> <<>>]

\* StaticPathConfig::builder()
StaticPathConfigBuilder ==
    [type |-> "StaticPathConfig", uri |-> TestUri, extensions |-> DotHtml,
     directory |-> TestDirectory]

\* ProxyPathConfig::builder()
ProxyPathConfigBuilder ==
    [type |-> "ProxyPathConfig", uri |-> TestUri, target |-> LocalTarget]

\* SecurityConfig::builder()
SecurityConfigBuilder ==
    [type |-> "SecurityConfig", cert |-> NoBytes, key |-> NoBytes]

Builders ==
    {VirtualHostConfigBuilder, StaticPathConfigBuilder, ProxyPathConfigBuilder,
     SecurityConfigBuilder}

\* mutant: the hostname check is left out
VirtualHostConfigBuild_Unchecked(b) == Built(b)

\* VirtualHostConfigBuilder::build
VirtualHostConfigBuild(b) ==
    IF b.hostname = EmptyString
    THEN ConfigError("VirtualHost", "hostname is empty")
    ELSE Built(b)

\* StaticPathConfigBuilder::build
StaticPathConfigBuild(b) ==
    IF b.uri = EmptyString
    THEN ConfigError("Path", "URI cannot be empty")
    ELSE IF b.extensions = EmptyString
    THEN ConfigError("Path", "Extensions cannot be empty")
    ELSE IF b.directory = EmptyString
    THEN ConfigError("Path", "Directory cannot be empty")
    ELSE Built(b)

\* ProxyPathConfigBuilder::build
ProxyPathConfigBuild(b) ==
    IF b.uri = EmptyString
    THEN ConfigError("Path", "URI cannot be empty")
    ELSE IF b.target = EmptyString
    THEN ConfigError("Path", "Target cannot be empty")
    ELSE Built(b)

\* SecurityConfigBuilder::build: returns the SecurityConfig, not a Result
SecurityConfigBuild(b) == Built(b)

\* build() of the builder b
BuildOf(b) ==
    CASE b.type = "VirtualHostConfig" -> VirtualHostConfigBuild(b)
      [] b.type = "StaticPathConfig" -> StaticPathConfigBuild(b)
      [] b.type = "ProxyPathConfig" -> ProxyPathConfigBuild(b)
      [] b.type = "SecurityConfig" -> SecurityConfigBuild(b)

\* the values the setters are called with
SetterValues(field) ==
    CASE field = "hostname" -> {EmptyString, Localhost, Ip6Host}
      [] field = "port" -> {Port80, Port8080}
      [] field = "uri" -> {EmptyString, TestUri, UriA}
      [] field = "extensions" -> {EmptyString, DotHtml}
      [] field = "directory" -> {EmptyString, TestDirectory}
      [] field = "target" -> {EmptyString, LocalTarget}
      [] field = "cert" -> {NoBytes, DerBytes}
      [] field = "key" -> {NoBytes, DerBytes}

SetterFields ==
    {"hostname", "port", "uri", "extensions", "directory", "target", "cert", "key"}

\* the outcome of the last build()
LastBuild == response[1]

\* X::builder()
NewBuilder(b) ==
    /\ staged = <<>>
    /\ staged' = <<b>>
    /\ UNCHANGED <<config, virtual_hosts, instance, tasks, conns, history, response>>

\* a setter of the builder: hostname, port, uri, extensions, directory,
\* target, cert_from_bytes, key_from_bytes
BuilderSet(field, value) ==
    /\ staged # <<>>
    /\ field \in DOMAIN staged[1]
    /\ staged' = <<[staged[1] EXCEPT ![field] = value]>>
    /\ UNCHANGED <<config, virtual_hosts, instance, tasks, conns, history, response>>

\* VirtualHostConfigBuilder::security, with the SecurityConfig last built
BuilderSecurity ==
    /\ staged # <<>>
    /\ staged[1].type = "VirtualHostConfig"
    /\ response # NoResponse
    /\ LastBuild.builder.type = "SecurityConfig"
    /\ LastBuild.result.kind = "ok"
    /\ staged' = <<[staged[1] EXCEPT !.security = <<LastBuild.result.value>>]>>
    /\ UNCHANGED <<config, virtual_hosts, instance, tasks, conns, history, response>>

\* builder.build(): consumes the builder
Build ==
    /\ staged # <<>>
    /\ response' = <<[builder |-> staged[1], result |-> BuildOf(staged[1])]>>
    /\ staged' = <<>>
    /\ UNCHANGED <<config, virtual_hosts, instance, tasks, conns, history>>

NextBuilders ==
    \/ \E b \in Builders : NewBuilder(b)
    \/ \E field \in SetterFields : \E value \in SetterValues(field) :
          BuilderSet(field, value)
    \/ BuilderSecurity
    \/ Build

InitBuilders ==
    /\ config = <<ListenerConfig(Port8080, Http1)>>
    /\ virtual_hosts = EmptyRegistry
    /\ instance = NoInstance
    /\ tasks = EmptyTasks
    /\ conns = <<>>
    /\ history = <<>>
    /\ staged = <<>>
    /\ response = NoResponse

SpecBuilders == InitBuilders /\ [][NextBuilders]_vars

----------------------------------------------------------------------------
(* Claims about the configuration builders (SpecBuilders)                  *)

\* the required fields of a builder, in the order the claim gives
RequiredFields(type) ==
    CASE type = "VirtualHostConfig" -> <<"hostname">>
      [] type = "StaticPathConfig" -> <<"uri", "extensions", "directory">>
      [] type = "ProxyPathConfig" -> <<"uri", "target">>
      [] type = "SecurityConfig" -> <<"cert">>

\* the error the claims give for an empty required field
EmptyFieldError(field) ==
    CASE field = "hostname" -> ConfigError("VirtualHost", "hostname is empty")
      [] field = "uri" -> ConfigError("Path", "URI cannot be empty")
      [] field = "extensions" -> ConfigError("Path", "Extensions cannot be empty")
      [] field = "directory" -> ConfigError("Path", "Directory cannot be empty")
      [] field = "target" -> ConfigError("Path", "Target cannot be empty")
      [] field = "cert" -> ConfigError("Security", "Certificate is empty")

\* the positions of the empty required fields of the builder b
EmptyRequired(b) ==
    {i \in DOMAIN RequiredFields(b.type) : b[RequiredFields(b.type)[i]] = <<>>}

\* what the claims say build() returns for the builder b
ClaimedBuild(b) ==
    IF EmptyRequired(b) = {}
    THEN Built(b)
    ELSE LET first == CHOOSE i \in EmptyRequired(b) :
                          \A j \in EmptyRequired(b) : i <= j
         IN  EmptyFieldError(RequiredFields(b.type)[first])

PathAndHostTypes == {"VirtualHostConfig", "StaticPathConfig", "ProxyPathConfig"}

C29_EmptyCertificateRejected ==
    /\ (response # NoResponse /\ LastBuild.builder.type = "SecurityConfig") =>
          LastBuild.result = ClaimedBuild(LastBuild.builder)
    /\ (/\ response # NoResponse
        /\ LastBuild.builder.type = "VirtualHostConfig"
        /\ LastBuild.result.kind = "ok") =>
          \A i \in DOMAIN LastBuild.result.value.security :
              LastBuild.result.value.security[i].cert # NoBytes

----------------------------------------------------------------------------
(* Specification of the two dispatchers side by side: each request is      *)
(* answered by process_request (stream listener) and by                    *)
(* handle_http_request (datagram listener) on the same registry and port   *)

StatusBadRequest == 400

\* handle_http_request(port, resolver, virtual_hosts, client_addr): the
\* response sent on the request stream
handle_http_request(req, reg, port) ==
    IF req.authority.present
    THEN LET key == <<req.authority.host, port>>
         IN  IF key \in DOMAIN reg
             THEN LET r == route(reg[key], req)
                  IN  IF r.kind = "error"
                      THEN Reply("response", StatusInternalServerError,
                                 "Internal server error", r.vhost, r.path, r.tail)
                      ELSE r
             ELSE Reply("response", StatusNotFound, "Virtual host not found", {}, {}, <<>>)
    ELSE Reply("response", StatusBadRequest, "Host not found in request", {}, {}, <<>>)

\* the same request arrives on a stream listener and on a datagram listener
\* of the port
DispatchBoth(req, port) ==
    /\ staged = <<>>
    /\ response = NoResponse
    /\ response' = <<[req |-> req, port |-> port,
                      reply |-> process_request(req, virtual_hosts, port),
                      h3_reply |-> handle_http_request(req, virtual_hosts, port)]>>
    /\ UNCHANGED <<config, virtual_hosts, instance, tasks, conns, history, staged>>

NextAuthority ==
    \/ \E cfg \in VHostConfigs : CreateVirtualHost(cfg)
    \/ \E uri \in UriPool : AddPath(uri)
    \/ AddStagedVirtualHost
    \/ \E req \in Requests, port \in Ports : DispatchBoth(req, port)
    \/ SendResponse

InitAuthority ==
    /\ config = <<ListenerConfig(Port8080, Http1), ListenerConfig(Port8080, Http3)>>
    /\ virtual_hosts = EmptyRegistry
    /\ instance = NoInstance
    /\ tasks = EmptyTasks
    /\ conns = <<>>
    /\ history = <<>>
    /\ staged = <<>>
    /\ response = NoResponse

SpecAuthority == InitAuthority /\ [][NextAuthority]_vars

----------------------------------------------------------------------------
(* Claims about the two dispatchers (SpecAuthority)                        *)

\* the reply of the datagram listener to the last request
LastH3Reply == response[1].h3_reply

\* C32: for the same Host header and request target the stream listener
\* and the datagram listener select the same virtual-host key, and neither
\* answers 400 "Host not found in request" to a request whose authority
\* the dispatcher's rules give (Host header, request-target authority,
\* localhost default).
C32_SameAuthority ==
    response # NoResponse =>
        /\ LastH3Reply.vhost = LastReply.vhost
        /\ LastReply.status # StatusBadRequest
        /\ LastH3Reply.status # StatusBadRequest

----------------------------------------------------------------------------
(* Specification of the registry lock: dispatches of a stream listener     *)
(* whose virtual host proxies to the server itself, and add_virtual_host   *)
(* calls made while they are in flight.  conns holds the requests, staged  *)
(* the virtual host of an add_virtual_host call waiting for the write lock *)

MaxInFlight == 3    \* requests made during one run of SpecLock, upstream ones included

\* a proxy path whose target is the listener of this server
SelfProxyPath(uri) == [kind |-> "Proxy", uri |-> uri, target |-> LocalTarget]

\* localhost:8080 with a handler at "/" and a proxy path at "/a"
ProxyingVHost ==
    add_path(add_path(NewVirtualHost([hostname |-> Localhost, port |-> Port8080,
                                      security |-> NoSecurity]),
                      HandlerPath(Slash)),
             SelfProxyPath(UriA))

\* a request at the listener; parent is the request whose proxy path made
\* it, 0 for a client's
LockRequest(path, parent) == [path |-> path, parent |-> parent, state |-> "arrived"]

\* the dispatches that hold a read guard of the registry: process_request
\* keeps it across route(request).await
ReadGuards == {r \in DOMAIN conns : conns[r].state \in {"handler", "upstream"}}

\* an add_virtual_host call is queued in virtual_hosts.write().await
WriterWaiting == staged # <<>>

\* what the dispatch of the request finds: no virtual host or no path
\* (404), a handler path, or a proxy path
Routed(reg, path) ==
    LET key == <<Localhost, Port8080>>
    IN  IF key \notin DOMAIN reg THEN [kind |-> "NotFound", uri |-> <<>>]
        ELSE LET matches == get_ancestor_value(reg[key].paths, path)
             IN  IF matches = {} THEN [kind |-> "NotFound", uri |-> <<>>]
                 ELSE reg[key].paths[CHOOSE u \in matches : TRUE]

\* the path of the upstream URL target \o tail
UpstreamPath(path, uri) ==
    LET tail == StripPrefixOr(path, uri)
    IN  IF tail = <<>> THEN Slash ELSE tail

\* a client sends a request for path to the listener
ClientRequest(path) ==
    /\ Len(conns) + 2 <= MaxInFlight
    /\ conns' = Append(conns, LockRequest(path, 0))
    /\ UNCHANGED <<config, virtual_hosts, instance, tasks, history, staged, response>>

\* process_request: virtual_hosts.read().await is granted (the lock queues
\* readers behind a waiting writer), the virtual host is looked up and
\* route() calls the path's handle(); a proxy path sends its upstream
\* request, which arrives at the listener
DispatchRead(r) ==
    /\ conns[r].state = "arrived"
    /\ ~WriterWaiting
    /\ LET path == Routed(virtual_hosts, conns[r].path)
       IN  conns' =
             CASE path.kind = "NotFound" -> [conns EXCEPT ![r].state = "done"]
               [] path.kind = "Handler" -> [conns EXCEPT ![r].state = "handler"]
               [] path.kind = "Proxy" ->
                    Append([conns EXCEPT ![r].state = "upstream"],
                           LockRequest(UpstreamPath(conns[r].path, path.uri), r))
    /\ UNCHANGED <<config, virtual_hosts, instance, tasks, history, staged, response>>

\* the handler returns, process_request returns the response and drops
\* the read guard
HandlerReturns(r) ==
    /\ conns[r].state = "handler"
    /\ conns' = [conns EXCEPT ![r].state = "done"]
    /\ UNCHANGED <<config, virtual_hosts, instance, tasks, history, staged, response>>

\* client.execute(deboa_request).await returns: the upstream request was
\* answered
UpstreamResponds(r) ==
    /\ conns[r].state = "upstream"
    /\ \E c \in DOMAIN conns : conns[c].parent = r /\ conns[c].state = "done"
    /\ conns' = [conns EXCEPT ![r].state = "done"]
    /\ UNCHANGED <<config, virtual_hosts, instance, tasks, history, staged, response>>

\* Vetis::add_virtual_host: virtual_hosts.write().await is entered
WriteLockWait(vh) ==
    /\ staged = <<>>
    /\ staged' = <<vh>>
    /\ UNCHANGED <<config, virtual_hosts, instance, tasks, conns, history, response>>

\* Vetis::add_virtual_host: the write lock is granted once no read guard
\* is left; the virtual host is inserted and the guard dropped
WriteLockGranted ==
    /\ WriterWaiting
    /\ ReadGuards = {}
    /\ virtual_hosts' = RegistryInsert(virtual_hosts, staged[1])
    /\ staged' = <<>>
    /\ UNCHANGED <<config, instance, tasks, conns, history, response>>

\* the virtual hosts added while requests are in flight
LockVHosts ==
    {ProxyingVHost} \cup
    {NewVirtualHost(cfg) : cfg \in {c \in VHostConfigs : c.hostname = Ip6Host}}

\* the steps requests in flight and a waiting add_virtual_host take
LockProgress ==
    \/ \E r \in DOMAIN conns : DispatchRead(r)
    \/ \E r \in DOMAIN conns : HandlerReturns(r)
    \/ \E r \in DOMAIN conns : UpstreamResponds(r)
    \/ WriteLockGranted

NextLock ==
    \/ \E path \in {Slash, UriA, UriAB} : ClientRequest(path)
    \/ \E vh \in LockVHosts : WriteLockWait(vh)
    \/ \E r \in DOMAIN conns : DispatchRead(r)
    \/ \E r \in DOMAIN conns : HandlerReturns(r)
    \/ \E r \in DOMAIN conns : UpstreamResponds(r)
    \/ WriteLockGranted

InitLock ==
    /\ config = <<ListenerConfig(Port8080, Http1)>>
    /\ virtual_hosts = RegistryInsert(EmptyRegistry, ProxyingVHost)
    /\ instance = NoInstance
    /\ tasks = EmptyTasks
    /\ conns = <<>>
    /\ history = <<>>
    /\ staged = <<>>
    /\ response = NoResponse

SpecLock == InitLock /\ [][NextLock]_vars

----------------------------------------------------------------------------
(* Claims about the registry lock (SpecLock)                               *)

\* C34: with a proxy path whose target is the same server, the read guard
\* the outer dispatch holds across the handler call, a waiting
\* add_virtual_host and the read lock the inner dispatch needs never wait
\* on one another in a cycle: while a request is unanswered or a writer
\* waits, one of them can take its next step.
C34_NoLockCycle ==
    (WriterWaiting \/ \E r \in DOMAIN conns : conns[r].state # "done") =>
        ENABLED LockProgress

----------------------------------------------------------------------------
(* Specification of static paths asked for tails that leave the directory: *)
(* the file system resolves "..", "." and empty segments of the path it is *)
(* given                                                                   *)

\* the segments of a path between its "/" characters
RECURSIVE SplitSegments(_)
SplitSegments(path) ==
    LET i == FindFrom(path, "/", 1)
    IN  IF i = 0 THEN <<path>>
        ELSE <<SubSeq(path, 1, i - 1)>> \o SplitSegments(SubSeq(path, i + 1, Len(path)))

\* the directories walked for the segments: ".." steps up, "." and an empty
\* segment stay
RECURSIVE WalkSegments(_, _, _)
WalkSegments(segs, stack, absolute) ==
    IF segs = <<>> THEN stack
    ELSE LET h == Head(segs)
             up == <<".", ".">>
         IN  IF h = <<>> \/ h = <<".">>
             THEN WalkSegments(Tail(segs), stack, absolute)
             ELSE IF h = up
             THEN IF stack # <<>> /\ stack[Len(stack)] # up
                  THEN WalkSegments(Tail(segs), SubSeq(stack, 1, Len(stack) - 1), absolute)
                  ELSE IF absolute
                  THEN WalkSegments(Tail(segs), stack, absolute)
                  ELSE WalkSegments(Tail(segs), Append(stack, h), absolute)
             ELSE WalkSegments(Tail(segs), Append(stack, h), absolute)

\* the place a path names, as the file system resolves it in File::open
\* and Path::exists
Resolve(path) ==
    LET absolute == path # <<>> /\ path[1] = "/"
    IN  [absolute |-> absolute,
         segs |-> WalkSegments(SplitSegments(path), <<>>, absolute)]

\* the place lies in the directory or is the directory
Inside(path, directory) ==
    LET p == Resolve(path)
        d == Resolve(directory)
    IN  /\ p.absolute = d.absolute
        /\ Len(p.segs) >= Len(d.segs)
        /\ SubSeq(p.segs, 1, Len(d.segs)) = d.segs

Secret == <<"s">>
Up == <<".", ".">>

\* the files of the machine by the place they lie at: the directory of the
\* static path with one file, a file next to the directory and a file
\* under the root
PlacedFiles ==
    { p \in [place : {Resolve(Www), Resolve(Join(Www, PageHtml)), Resolve(Secret),
                      Resolve(Slash \o Secret)},
             kind : {"file", "dir"}, len : {0, 1}] :
        IF p.place = Resolve(Www) THEN p.kind = "dir" /\ p.len = 0
        ELSE p.kind = "file" /\ p.len = 1 }

\* the machines: the directory of the static path always exists
Machines == {m \in SUBSET PlacedFiles : \E p \in m : p.place = Resolve(Www)}

\* the tails route() hands to the static path
TraversalTails ==
    { PageHtml,
      Slash \o PageHtml,
      Up \o Slash \o Secret,
      DirD \o Slash \o Up \o Slash \o PageHtml,
      Slash \o Secret,
      Slash \o Slash \o Secret }

\* the paths the static path may look up
ProbedPaths ==
    LET base == {Www} \cup {Join(Www, StripPrefixOr(t, Slash)) : t \in TraversalTails}
    IN  base \cup {Join(b, i) : b \in base, i \in {IndexI, IndexJ}}

\* the file system as the static path sees it: every path that names a
\* place where a file or directory lies
Mounted(machine) ==
    [f \in {q \in ProbedPaths : \E p \in machine : p.place = Resolve(q)} |->
        LET p == CHOOSE p \in machine : p.place = Resolve(f)
        IN  [kind |-> p.kind, len |-> p.len]]

\* a request whose tail route() hands to the static path
TraversalRequest(machine, cfg, req, uri) ==
    /\ response = NoResponse
    /\ response' = <<Served("static", "tcp", PlainVHost, Mounted(machine), cfg, req, uri,
                            NoUpstream, {},
                            StaticHandle(Mounted(machine), cfg, req, uri), FALSE)>>
    /\ UNCHANGED <<config, virtual_hosts, instance, tasks, conns, history, staged>>

NextTraversal ==
    \/ /\ response = NoResponse
       /\ \E machine \in Machines, cfg \in {c \in StaticConfigs : ~c.auth},
             req \in {r \in PathRequests : r.auth = "pass"}, uri \in TraversalTails :
                 TraversalRequest(machine, cfg, req, uri)
    \/ SendResponse

InitTraversal ==
    /\ config = <<ListenerConfig(Port8080, Http1)>>
    /\ virtual_hosts = EmptyRegistry
    /\ instance = NoInstance
    /\ tasks = EmptyTasks
    /\ conns = <<>>
    /\ history = <<>>
    /\ staged = <<>>
    /\ response = NoResponse

SpecTraversal == InitTraversal /\ [][NextTraversal]_vars

----------------------------------------------------------------------------
(* Claims about tails that leave the directory (SpecTraversal)             *)

\* C35: for every request tail the file a static path looks up and opens
\* lies inside the path's configured directory, also when the tail has
\* ".." segments or still begins with "/" after one leading "/" is stripped.
C35_StaysInsideDirectory ==
    response # NoResponse =>
        /\ IsPresent(LastServed.fs, LastCandidate) =>
              Inside(LastCandidate, LastServed.cfg.directory)
        /\ (LastServed.result.kind = "response" /\ LastServed.result.body.kind = "file") =>
              Inside(LastServed.result.body.file, LastServed.cfg.directory)

----------------------------------------------------------------------------
(* Specification of serve_file under any Range header value                *)

\* Range header values: a unit that is not "bytes", no "=", no "-", an
\* empty or non-numeric start or end
RawRangeValues ==
    { Bytes,
      Bytes \o <<"=", "5">>,
      Bytes \o <<"=", "1", "-">>,
      Bytes \o <<"=", "-", "1">>,
      Bytes \o <<"=", "a", "-", "1">>,
      Bytes \o <<"=", "0", "-", "b">>,
      Items \o <<"=", "0", "-", "1">>,
      <<"=", "0", "-", "1">>,
      <<>> }

\* serve_file on a file of the given length with the Range header value
RawRangeRequest(length, value) ==
    /\ response = NoResponse
    /\ LET file == Join(Www, PageHtml)
           fs == (file :> [kind |-> "file", len |-> length]) @@
                 (Www :> [kind |-> "dir", len |-> 0])
           req == [method |-> "GET", range |-> Header(value),
                   auth |-> "pass", headers |-> NoHeaders]
       IN  response' = <<Served("range", "tcp", PlainVHost, fs, NoStaticConfig, req,
                                PageHtml, NoUpstream, {},
                                serve_file(fs, file, req.range), FALSE)>>
    /\ UNCHANGED <<config, virtual_hosts, instance, tasks, conns, history, staged>>

NextRange ==
    \/ /\ response = NoResponse
       /\ \E length \in 0..MaxFileLen, unit \in {Bytes, Items},
             start \in 0..(MaxFileLen + 1), end \in 0..(MaxFileLen + 1) :
                 RangeRequest(length, unit, start, end)
    \/ /\ response = NoResponse
       /\ \E length \in 0..MaxFileLen, value \in RawRangeValues :
             RawRangeRequest(length, value)
    \/ SendResponse

InitRange ==
    /\ config = <<ListenerConfig(Port8080, Http1)>>
    /\ virtual_hosts = EmptyRegistry
    /\ instance = NoInstance
    /\ tasks = EmptyTasks
    /\ conns = <<>>
    /\ history = <<>>
    /\ staged = <<>>
    /\ response = NoResponse

SpecRange == InitRange /\ [][NextRange]_vars

----------------------------------------------------------------------------
(* Claims about Range header values (SpecRange)                            *)

\* C37: serve_file ends with a response or an error value for every Range
\* header value and never panics: with InvalidRange when the unit before
\* "=" is not "bytes", and with a response or an error also for a value
\* without "=", without "-", or with an empty or non-numeric start or end.
C37_RangeNeverPanics ==
    response # NoResponse =>
        /\ LastServed.result.kind \in {"response", "error"}
        /\ LET unit_range == SplitOnce(LastServed.req.range.value, "=")
           IN  (unit_range.found /\ unit_range.left # Bytes) =>
                  LastServed.result = ErrResult("InvalidRange")

----------------------------------------------------------------------------
(* Specification of TlsFactory::create_tls_acceptor (src/src/server/tls.rs, *)
(* where the registry is keyed by hostname): virtual_hosts is the          *)
(* registry, staged the order in which its iterator yields the keys,       *)
(* history the hosts the loop has visited and response the value returned  *)

MaxVisits == 4      \* passes through the loop body during one run of SpecAcceptor

\* the registries: hostname -> virtual host, with or without a SecurityConfig
AcceptorRegistries ==
    UNION { [hs -> [security : {NoSecurity, ValidDer, OtherValidDer, MalformedDer}]] :
              hs \in SUBSET Hostnames }

\* the orders in which HashMap::iter() may yield the keys
IterOrders(reg) ==
    {o \in UNION {[1..n -> DOMAIN reg] : n \in {Cardinality(DOMAIN reg)}} :
        \A i, j \in DOMAIN o : i # j => o[i] # o[j]}

\* one pass through the loop body: virtual_hosts.read().await.iter().next()
\* makes a new iterator and takes its first entry; a SecurityConfig that
\* does not parse returns the Tls error, any other entry is added to the
\* resolver (when it has a SecurityConfig) and the loop condition is
\* evaluated again
AcceptorVisit ==
    /\ response = NoResponse
    /\ staged # <<>>
    /\ Len(history) < MaxVisits
    /\ LET hostname == staged[1]
       IN  /\ history' = Append(history, hostname)
           /\ response' = IF virtual_hosts[hostname].security = MalformedDer
                          THEN <<[res |-> "Tls", resolver |-> {}]>>
                          ELSE NoResponse
    /\ UNCHANGED <<config, virtual_hosts, instance, tasks, conns, staged>>

\* the iterator yields None: the resolver goes into the acceptor returned
AcceptorReturn ==
    /\ response = NoResponse
    /\ staged = <<>>
    /\ response' = <<[res |-> "Ok",
                      resolver |-> {history[i] : i \in
                                      {j \in DOMAIN history :
                                          virtual_hosts[history[j]].security # NoSecurity}}]>>
    /\ UNCHANGED <<config, virtual_hosts, instance, tasks, conns, history, staged>>

NextAcceptor == AcceptorVisit \/ AcceptorReturn

InitAcceptor ==
    /\ config = <<ListenerConfig(Port8080, Http1)>>
    /\ virtual_hosts \in AcceptorRegistries
    /\ instance = NoInstance
    /\ tasks = EmptyTasks
    /\ conns = <<>>
    /\ history = <<>>
    /\ staged \in IterOrders(virtual_hosts)
    /\ response = NoResponse

SpecAcceptor == InitAcceptor /\ [][NextAcceptor]_vars

----------------------------------------------------------------------------
(* Claims about create_tls_acceptor (SpecAcceptor)                         *)

\* C38: create_tls_acceptor terminates for every finite registry and
\* visits each registered host exactly once while it builds the resolver:
\* no host is visited twice, and when the acceptor is returned every host
\* has been visited.
C38_VisitsEachHostOnce ==
    /\ \A i, j \in DOMAIN history : i # j => history[i] # history[j]
    /\ (response # NoResponse /\ response[1].res = "Ok") =>
          {history[i] : i \in DOMAIN history} = DOMAIN virtual_hosts

====
